---- MODULE Spec2Model ----
(***************************************************************************)
(* Model of the card feature and synergy analysis engine of PKMcopilot     *)
(* (analysis/card_analyzer.py).                                            *)
(*                                                                         *)
(* Python floats are IEEE-754 binary64 values.  The scores, confidences    *)
(* and ratios of the analyzer are modelled with that arithmetic (53-bit    *)
(* mantissa, round to nearest, ties to even), because the code compares    *)
(* them with literals such as 0.3 and 1.0 and sums them.                   *)
(***************************************************************************)
EXTENDS Integers, Sequences, FiniteSets, TLC

(***************************************************************************)
(* pc    : position of the call under analysis ("call", then "done")       *)
(* args  : the arguments of the call, named as in the source               *)
(* ret   : what the call produced: [kind |-> "return", value |-> v] or     *)
(*         [kind |-> "raise", exc |-> e]                                   *)
(* store : the rows of the cards table, in SELECT order                    *)
(* nlp   : the analyzer's self.nlp                                         *)
(* state : the GameState of a simulated game, None when no game is played  *)
(***************************************************************************)
VARIABLES pc, args, ret, store, nlp, state

vars == <<pc, args, ret, store, nlp, state>>

(***************************************************************************)
(* Naturals below 2^58 as two limbs <<hi, lo>> of 27 bits.                 *)
(***************************************************************************)
PowersOfTwo ==
    <<1, 2, 4, 8, 16, 32, 64, 128, 256, 512, 1024, 2048, 4096, 8192, 16384,
      32768, 65536, 131072, 262144, 524288, 1048576, 2097152, 4194304,
      8388608, 16777216, 33554432, 67108864, 134217728, 268435456,
      536870912, 1073741824>>

Pow2(n) == PowersOfTwo[n + 1]

LIMB == Pow2(27)

BZero == <<0, 0>>

BNorm(hi, lo) == <<hi + (lo \div LIMB), lo % LIMB>>

BAdd(a, b) == BNorm(a[1] + b[1], a[2] + b[2])

BSub(a, b) ==
    IF a[2] >= b[2] THEN <<a[1] - b[1], a[2] - b[2]>>
    ELSE <<a[1] - b[1] - 1, a[2] + LIMB - b[2]>>

BLt(a, b) == a[1] < b[1] \/ (a[1] = b[1] /\ a[2] < b[2])

BDbl(a) == BNorm(2 * a[1], 2 * a[2])

BHalf(a) == <<a[1] \div 2, (a[2] \div 2) + (a[1] % 2) * (LIMB \div 2)>>

BOdd(a) == a[2] % 2 = 1

\* a * 2^s, for a result below 2^58.
BShl(a, s) ==
    IF s = 0 THEN a
    ELSE IF s < 27
    THEN <<a[1] * Pow2(s) + (a[2] \div Pow2(27 - s)), (a[2] % Pow2(27 - s)) * Pow2(s)>>
    ELSE <<a[2] * Pow2(s - 27), 0>>

\* The number of bits of n: the least k with n < 2^k.
IntBitLen(n) ==
    IF n < Pow2(7) THEN (IF n < Pow2(3) THEN (IF n < Pow2(1) THEN (IF n < Pow2(0) THEN 0 ELSE 1) ELSE (IF n < Pow2(2) THEN 2 ELSE 3)) ELSE (IF n < Pow2(5) THEN (IF n < Pow2(4) THEN 4 ELSE 5) ELSE (IF n < Pow2(6) THEN 6 ELSE 7)))
    ELSE IF n < Pow2(15) THEN (IF n < Pow2(11) THEN (IF n < Pow2(9) THEN (IF n < Pow2(8) THEN 8 ELSE 9) ELSE (IF n < Pow2(10) THEN 10 ELSE 11)) ELSE (IF n < Pow2(13) THEN (IF n < Pow2(12) THEN 12 ELSE 13) ELSE (IF n < Pow2(14) THEN 14 ELSE 15)))
    ELSE IF n < Pow2(23) THEN (IF n < Pow2(19) THEN (IF n < Pow2(17) THEN (IF n < Pow2(16) THEN 16 ELSE 17) ELSE (IF n < Pow2(18) THEN 18 ELSE 19)) ELSE (IF n < Pow2(21) THEN (IF n < Pow2(20) THEN 20 ELSE 21) ELSE (IF n < Pow2(22) THEN 22 ELSE 23)))
    ELSE IF n < Pow2(30) THEN (IF n < Pow2(27) THEN (IF n < Pow2(25) THEN (IF n < Pow2(24) THEN 24 ELSE 25) ELSE (IF n < Pow2(26) THEN 26 ELSE 27)) ELSE (IF n < Pow2(29) THEN (IF n < Pow2(28) THEN 28 ELSE 29) ELSE 30))
    ELSE 31

BitLen(a) == IF a[1] > 0 THEN 27 + IntBitLen(a[1]) ELSE IntBitLen(a[2])

\* q with its lowest bit set when a dropped bit was set (the sticky bit of
\* the rounding).
Sticky(q, lost) == IF lost /\ ~BOdd(q) THEN BAdd(q, <<0, 1>>) ELSE q

\* x shifted right by d bits, the dropped bits kept as a sticky bit.
BShrSticky(x, d) ==
    IF d = 0 THEN x
    ELSE IF d < 27
    THEN Sticky(<<x[1] \div Pow2(d), (x[2] \div Pow2(d)) + (x[1] % Pow2(d)) * Pow2(27 - d)>>,
                x[2] % Pow2(d) # 0)
    ELSE IF d < 58
    THEN Sticky(BNorm(0, x[1] \div Pow2(d - 27)), x[2] # 0 \/ x[1] % Pow2(d - 27) # 0)
    ELSE Sticky(BZero, x # BZero)

(***************************************************************************)
(* Non-negative binary64 values [m, e] of value m * 2^e, with              *)
(* 2^52 <= m < 2^53, or m = 0 and e = 0.                                   *)
(***************************************************************************)
FZero == [m |-> BZero, e |-> 0]

\* [q, e] for q < 2^54: a mantissa of 54 bits (a carry of the rounding) is
\* halved, it is even.
FCarry(q, e) == IF BitLen(q) = 54 THEN [m |-> BHalf(q), e |-> e + 1] ELSE [m |-> q, e |-> e]

\* q + r / (2 * half), rounded to the nearest integer, ties to even.
BNearest(q, r, half) == IF r > half \/ (r = half /\ BOdd(q)) THEN BAdd(q, <<0, 1>>) ELSE q

\* x * 2^e for x of n bits, n > 53: the low n - 53 bits (p = 2^(n - 53)) are
\* rounded away.
FRoundLow(x, e, p) ==
    FCarry(BNearest(<<x[1] \div p, (x[2] \div p) + (x[1] % p) * (LIMB \div p)>>,
                    x[2] % p, p \div 2), e)

FRoundBits(x, e, n) ==
    IF n = 0 THEN FZero
    ELSE IF n <= 53 THEN [m |-> BShl(x, 53 - n), e |-> e - (53 - n)]
    ELSE FRoundLow(x, e + (n - 53), Pow2(n - 53))

\* Round the exact value x * 2^e (x < 2^58) to the nearest binary64 value,
\* ties to even.
FRound(x, e) == FRoundBits(x, e, BitLen(x))

FromInt(n) == FRound(<<0, n>>, 0)

FIsZero(a) == a.m = BZero

FLt(a, b) ==
    IF FIsZero(b) THEN FALSE
    ELSE IF FIsZero(a) THEN TRUE
    ELSE a.e < b.e \/ (a.e = b.e /\ BLt(a.m, b.m))

FLe(a, b) == ~FLt(b, a)

FMin(a, b) == IF FLt(b, a) THEN b ELSE a

FMax(a, b) == IF FLt(a, b) THEN b ELSE a

\* hi + lo for hi.e >= lo.e, correctly rounded (three extra bits: guard,
\* round, sticky).
FAddOrdered(hi, lo) ==
    FRound(BAdd(BShl(hi.m, 3), BShrSticky(BShl(lo.m, 3), hi.e - lo.e)), hi.e - 3)

\* a + b, correctly rounded.
FAdd(a, b) ==
    IF FIsZero(a) THEN b
    ELSE IF FIsZero(b) THEN a
    ELSE IF a.e >= b.e THEN FAddOrdered(a, b)
    ELSE FAddOrdered(b, a)

\* a - b for a >= b, correctly rounded.
FSub(a, b) ==
    IF FIsZero(b) THEN a
    ELSE FRound(BSub(BShl(a.m, 3), BShrSticky(BShl(b.m, 3), a.e - b.e)), a.e - 3)

FAbsDiff(a, b) == IF FLt(a, b) THEN FSub(b, a) ELSE FSub(a, b)

\* One step of restoring division: st = <<remainder, quotient>> gains the
\* next quotient bit of remainder / d.
DivStep(st, d) ==
    IF BLt(st[1], d) THEN <<BDbl(st[1]), BDbl(st[2])>>
    ELSE <<BDbl(BSub(st[1], d)), BAdd(BDbl(st[2]), <<0, 1>>)>>

\* a * 2^s, in shifts of at most 26 bits.
RECURSIVE BShlWide(_, _)
BShlWide(a, s) == IF s <= 26 THEN BShl(a, s) ELSE BShlWide(BShl(a, 26), s - 26)

\* n steps of the division; once the remainder is zero the quotient bits
\* that are left are zero.
RECURSIVE DivSteps(_, _, _)
DivSteps(st, d, n) ==
    IF n = 0 THEN st
    ELSE IF st[1] = BZero THEN <<BZero, BShlWide(st[2], n)>>
    ELSE DivSteps(DivStep(st, d), d, n - 1)

\* The quotient bits of st, the last bit made sticky when the remainder is
\* not zero.
DivSticky(st) == Sticky(st[2], st[1] # BZero)

\* The first 56 quotient bits of r / d, sticky.
DivBits(r, d) == DivSticky(DivSteps(<<r, BZero>>, d, 56))

\* a / b for b # 0, correctly rounded.
FDiv(a, b) ==
    IF FIsZero(a) THEN FZero
    ELSE FRound(DivBits(a.m, b.m), a.e - b.e - 55)

\* n * x for n < 32 and x < 2^53, the low limb multiplied in two halves.
BTimes(n, x) ==
    LET t0 == (x[2] % 16384) * n
        t1 == (x[2] \div 16384) * n + (t0 \div 16384)
    IN <<x[1] * n + (t1 \div 8192), (t1 % 8192) * 16384 + (t0 % 16384)>>

\* n * a for a small integer n (float(n) * a: the product n * a.m is exact
\* below 2^58 for n < 32, and is rounded once).
FMulInt(n, a) == FRound(BTimes(n, a.m), a.e)

\* The float literals of the source: the binary64 values nearest to them.
F0_1 == [m |-> <<53687091, 26843546>>, e |-> -56]
F0_2 == [m |-> <<53687091, 26843546>>, e |-> -55]
F0_3 == [m |-> <<40265318, 53687091>>, e |-> -54]
F0_4 == [m |-> <<53687091, 26843546>>, e |-> -54]
Score6 == [m |-> <<40265318, 53687091>>, e |-> -53]
Score7 == [m |-> <<46976204, 107374182>>, e |-> -53]
Score8 == [m |-> <<53687091, 26843546>>, e |-> -53]
Score9 == [m |-> <<60397977, 80530637>>, e |-> -53]
One == [m |-> <<33554432, 0>>, e |-> -52]

(***************************************************************************)
(* Python values                                                           *)
(***************************************************************************)
\* None in a text column, and None in an integer column (hp and
\* retreat_cost are non-negative when present).
None == "None"
NoneInt == -1

NoResult == [kind |-> "none"]
Return(v) == [kind |-> "return", value |-> v]
Raise(e) == [kind |-> "raise", exc |-> e]

\* str.lower() on the strings of the model.
Lower(str) ==
    CASE str = "Pokémon" -> "pokémon"
      [] str = "Trainer" -> "trainer"
      [] str = "Energy" -> "energy"
      [] str = "Supporter" -> "supporter"
      [] str = "Item" -> "item"
      [] str = "Pokémon Tool" -> "pokémon tool"
      [] str = "Stadium" -> "stadium"
      [] str = "Basic" -> "basic"
      [] str = "Special" -> "special"
      [] str = "Fire" -> "fire"
      [] str = "Draw" -> "draw"
      [] str = "Search" -> "search"
      [] str = "Discard" -> "discard"
      [] str = "Heal" -> "heal"
      [] str = "Switch" -> "switch"
      [] str = "Attach" -> "attach"
      [] OTHER -> str

\* x or 0
\* Mutant of OrZero: the null value is kept.
OrZero_Kept(x) == x

OrZero(x) == IF x = NoneInt THEN 0 ELSE x

\* dict.get(key, default)
Get(d, key, default) == IF key \in DOMAIN d THEN d[key] ELSE default

\* A dict with float values is a sequence of <<key, value>> pairs in
\* insertion order; Keys and Values are dict.keys() and dict.values().
Keys(d) == {d[i][1] : i \in DOMAIN d}
Values(d) == [i \in DOMAIN d |-> d[i][2]]
Entry(cond, key, value) == IF cond THEN <<(<<key, value>>)>> ELSE <<>>

\* sum(values): the built-in sum, left to right from the integer 0.
RECURSIVE FSum(_)
FSum(values) ==
    IF values = <<>> THEN FZero
    ELSE FAdd(FSum(SubSeq(values, 1, Len(values) - 1)), values[Len(values)])

(***************************************************************************)
(* Role classification                                                     *)
(***************************************************************************)
\* Mutant of _categorize_pokemon_roles: the secondary attacker test is an
\* "if" of its own, not the "elif" of the main attacker test.
_categorize_pokemon_roles_BothAttackers(card_data, keywords, effects) ==
    LET hp == OrZero(card_data.hp)
        damage == Get(effects, "damage_amount", 0)
    IN  Entry(hp >= 200 \/ damage >= 150, "main_attacker", Score8)
        \o Entry(hp >= 120 \/ damage >= 80, "secondary_attacker", Score6)
        \o Entry("draw" \in keywords \/ "search" \in keywords, "setup_pokemon", Score7)

_categorize_pokemon_roles(card_data, keywords, effects) ==
    LET hp == OrZero(card_data.hp)
        retreat_cost == OrZero(card_data.retreat_cost)
        damage == Get(effects, "damage_amount", 0)
    IN  (IF hp >= 200 \/ damage >= 150 THEN <<(<<"main_attacker", Score8>>)>>
         ELSE IF hp >= 120 \/ damage >= 80 THEN <<(<<"secondary_attacker", Score6>>)>>
         ELSE <<>>)
        \o Entry("draw" \in keywords \/ "search" \in keywords, "setup_pokemon", Score7)
        \o Entry(hp >= 200 \/ "protection" \in keywords \/ "heal" \in keywords, "wall", Score6)
        \o Entry(retreat_cost = 0 \/ "movement" \in keywords, "pivot", Score7)
        \o Entry("energy" \in keywords /\ "attach" \in keywords, "energy_acceleration", Score8)
        \o Entry(Get(effects, "draw_amount", 0) >= 2, "draw_engine", Score7)
        \o Entry("disrupt" \in keywords \/ Get(effects, "discard_amount", 0) > 0, "disruptor", Score6)

\* Mutant of _categorize_trainer_roles: the tests of a Supporter are
\* independent "if"s, and an Item always is a utility item as well.
_categorize_trainer_roles_Independent(card_data, keywords, effects) ==
    LET subtype == Lower(card_data.subtype)
    IN  IF subtype = "supporter"
        THEN Entry("draw" \in keywords \/ Get(effects, "draw_amount", 0) > 0,
                   "draw_supporter", Score9)
             \o Entry("search" \in keywords, "search_supporter", Score8)
             \o Entry("disrupt" \in keywords, "disruption_supporter", Score7)
        ELSE IF subtype = "item"
        THEN Entry("search" \in keywords, "search_item", Score8)
             \o Entry("draw" \in keywords, "draw_item", Score7)
             \o <<(<<"utility_item", Score6>>)>>
        ELSE <<(<<"tool", Score9>>)>>

\* The body after subtype = card_data.get('subtype', '').lower()
_categorize_trainer_roles(card_data, keywords, effects) ==
    LET subtype == Lower(card_data.subtype)
    IN  IF subtype = "supporter"
        THEN IF "draw" \in keywords \/ Get(effects, "draw_amount", 0) > 0
             THEN <<(<<"draw_supporter", Score9>>)>>
             ELSE IF "search" \in keywords THEN <<(<<"search_supporter", Score8>>)>>
             ELSE IF "disrupt" \in keywords THEN <<(<<"disruption_supporter", Score7>>)>>
             ELSE <<>>
        ELSE IF subtype = "item"
        THEN IF "search" \in keywords THEN <<(<<"search_item", Score8>>)>>
             ELSE IF "draw" \in keywords THEN <<(<<"draw_item", Score7>>)>>
             ELSE <<(<<"utility_item", Score6>>)>>
        ELSE IF subtype = "pokémon tool" THEN <<(<<"tool", Score9>>)>>
        ELSE IF subtype = "stadium" THEN <<(<<"stadium", Score9>>)>>
        ELSE <<>>

\* A name is the sequence of its words; 'basic' in name.lower()
NameHas(name, word) == \E i \in DOMAIN name : Lower(name[i]) = word

_categorize_energy_roles(card_data, keywords, effects) ==
    IF NameHas(card_data.name, "basic") /\ NameHas(card_data.name, "energy")
    THEN <<(<<"basic_energy", Score9>>)>>
    ELSE <<(<<"special_energy", Score8>>)>>
         \o Entry("acceleration" \in keywords \/ "attach" \in keywords, "acceleration", Score7)
         \o Entry(\E keyword \in {"draw", "heal", "protection"} : keyword \in keywords,
                  "utility", Score6)

\* Mutant of Normalize: the scores are divided by the number of roles.
Normalize_ByCount(roles) ==
    [i \in DOMAIN roles |-> <<roles[i][1], FDiv(roles[i][2], FromInt(Len(roles)))>>]

\* roles = {role: score/total for role, score in roles.items()} when total > 0
DivideBy(roles, total) ==
    IF FLt(FZero, total)
    THEN [i \in DOMAIN roles |-> <<roles[i][1], FDiv(roles[i][2], total)>>]
    ELSE roles

Normalize(roles) == DivideBy(roles, FSum(Values(roles)))

\* The result of _categorize_card_roles: the role dict, or the exception
\* that leaves the function.  None.lower() raises AttributeError: for the
\* supertype before the try block, for the subtype inside it (roles is then
\* still the empty dict).
_categorize_card_roles(card_data, keywords, effects) ==
    IF card_data.supertype = None THEN Raise("AttributeError")
    ELSE LET supertype == Lower(card_data.supertype)
         IN  IF supertype = "pokémon"
             THEN Return(Normalize(_categorize_pokemon_roles(card_data, keywords, effects)))
             ELSE IF supertype = "trainer"
             THEN IF card_data.subtype = None THEN Return(<<>>)
                  ELSE Return(Normalize(_categorize_trainer_roles(card_data, keywords, effects)))
             ELSE IF supertype = "energy"
             THEN Return(Normalize(_categorize_energy_roles(card_data, keywords, effects)))
             ELSE Return(<<>>)

(***************************************************************************)
(* Inputs of the role classifier                                           *)
(***************************************************************************)
MaxKeywords == 2

KeywordUniverse ==
    {"draw", "search", "protection", "heal", "movement", "energy", "attach",
     "disrupt", "acceleration"}

KeywordSets == {k \in SUBSET KeywordUniverse : Cardinality(k) <= MaxKeywords}

\* An effects dict holds a key only for an observed amount.
MkEffects(damage, draw, discard) ==
    LET present == {k \in {"damage_amount", "draw_amount", "discard_amount"} :
                      CASE k = "damage_amount" -> damage # NoneInt
                        [] k = "draw_amount" -> draw # NoneInt
                        [] OTHER -> discard # NoneInt}
    IN  [k \in present |-> CASE k = "damage_amount" -> damage
                              [] k = "draw_amount" -> draw
                              [] OTHER -> discard]

EffectDicts ==
    {MkEffects(damage, draw, discard) :
        damage \in {NoneInt, 80, 150}, draw \in {NoneInt, 1, 2}, discard \in {NoneInt, 1}}

PokemonRecords ==
    [supertype : {"Pokémon"}, subtype : {"Basic"}, name : {<<"Pikachu">>},
     hp : {NoneInt, 120, 200}, retreat_cost : {NoneInt, 2}]

OtherRecords ==
    [supertype : {"Trainer"}, subtype : {"Supporter", "Item", "Pokémon Tool", "Stadium", None},
     name : {<<"Research">>}, hp : {NoneInt}, retreat_cost : {NoneInt}]
    \cup
    [supertype : {"Energy"}, subtype : {"Basic"},
     name : {<<"Basic", "Fire", "Energy">>, <<"Double", "Turbo", "Energy">>},
     hp : {NoneInt}, retreat_cost : {NoneInt}]
    \cup
    [supertype : {None, ""}, subtype : {"Basic"}, name : {<<"Pikachu">>},
     hp : {NoneInt}, retreat_cost : {NoneInt}]

RoleArgs ==
    [card_data : PokemonRecords \cup OtherRecords, keywords : KeywordSets, effects : EffectDicts]

InitRoles ==
    /\ pc = "call"
    /\ args \in RoleArgs
    /\ ret = NoResult
    /\ store = <<>>
    /\ nlp = "model"
    /\ state = None

CategorizeCardRoles ==
    /\ pc = "call"
    /\ "card_data" \in DOMAIN args
    /\ ret' = _categorize_card_roles(args.card_data, args.keywords, args.effects)
    /\ pc' = "done"
    /\ UNCHANGED <<args, store, nlp, state>>

NextRoles == CategorizeCardRoles

SpecRoles == InitRoles /\ [][NextRoles]_vars

\* The roles dict returned by the call at hand.
RolesReturned == pc = "done" /\ "card_data" \in DOMAIN args /\ ret.kind = "return"

\* 1e-9
Tolerance == [m |-> <<36028797, 2545301>>, e |-> -82]

\* C1 as stated: a returned roles mapping is empty, or its values lie in
\* (0,1] and sum to exactly 1.
C1_SumExactlyOne ==
    RolesReturned /\ ret.value # <<>> =>
        /\ FSum(Values(ret.value)) = One
        /\ \A i \in DOMAIN ret.value : FLt(FZero, ret.value[i][2]) /\ FLe(ret.value[i][2], One)

\* C1 amended: a returned roles mapping is empty, or its values lie in (0,1]
\* and their sum differs from 1 by at most 1e-9.
C1_SumOneWithinTolerance ==
    RolesReturned /\ ret.value # <<>> =>
        /\ FLe(FAbsDiff(FSum(Values(ret.value)), One), Tolerance)
        /\ \A i \in DOMAIN ret.value : FLt(FZero, ret.value[i][2]) /\ FLe(ret.value[i][2], One)

\* A Pokémon with several roles has been classified.
C1_Witness ==
    RolesReturned /\ Len(ret.value) >= 3 /\ args.card_data.supertype = "Pokémon"

\* The call at hand has ended, by a return or by an exception.
RolesCallEnded == pc = "done" /\ "card_data" \in DOMAIN args

\* C11: no exception leaves _categorize_card_roles; a record with a null
\* supertype or a null subtype gets the empty role mapping.
C11_NoExceptionLeavesCategorization ==
    RolesCallEnded =>
        /\ ret.kind = "return"
        /\ (args.card_data.supertype = None \/ args.card_data.subtype = None
                => ret.value = <<>>)

\* The role the priority order of the specification gives a Trainer of the
\* subtype, as a set: empty when no condition holds.
PriorityTrainerRole(subtype, keywords, effects) ==
    CASE subtype = "Supporter" ->
            IF "draw" \in keywords \/ Get(effects, "draw_amount", 0) > 0
            THEN {"draw_supporter"}
            ELSE IF "search" \in keywords THEN {"search_supporter"}
            ELSE IF "disrupt" \in keywords THEN {"disruption_supporter"}
            ELSE {}
      [] subtype = "Item" ->
            IF "search" \in keywords THEN {"search_item"}
            ELSE IF "draw" \in keywords THEN {"draw_item"}
            ELSE {"utility_item"}
      [] subtype = "Pokémon Tool" -> {"tool"}
      [] subtype = "Stadium" -> {"stadium"}
      [] OTHER -> {}

\* C19: a Trainer receives at most one role, the first of its subtype's
\* priority order whose condition holds, and a non-empty normalized mapping
\* of a Trainer has a single key of confidence 1.
C19_TrainerSingleRole ==
    RolesReturned /\ args.card_data.supertype = "Trainer" =>
        /\ Len(ret.value) <= 1
        /\ Keys(ret.value) =
               PriorityTrainerRole(args.card_data.subtype, args.keywords, args.effects)
        /\ \A i \in DOMAIN ret.value : ret.value[i][2] = One

\* A Supporter with both the draw and the search keyword is a draw
\* supporter.
C19_Witness ==
    /\ RolesReturned
    /\ args.card_data.subtype = "Supporter"
    /\ {"draw", "search"} \subseteq args.keywords
    /\ ret.value = <<(<<"draw_supporter", One>>)>>

\* C20: a Pokémon is a main attacker exactly when hp >= 200 or
\* damage_amount >= 150, a secondary attacker exactly when it is not and
\* hp >= 120 or damage_amount >= 80, and never both.
C20_AttackerRolesExclusive ==
    RolesReturned /\ args.card_data.supertype = "Pokémon" =>
        LET hp == OrZero(args.card_data.hp)
            damage == Get(args.effects, "damage_amount", 0)
            main == hp >= 200 \/ damage >= 150
        IN  /\ "main_attacker" \in Keys(ret.value) <=> main
            /\ "secondary_attacker" \in Keys(ret.value) <=>
                   ~main /\ (hp >= 120 \/ damage >= 80)
            /\ ~({"main_attacker", "secondary_attacker"} \subseteq Keys(ret.value))

\* A Pokémon of 200 HP with an attack of 80 damage is a main attacker only.
C20_Witness ==
    /\ RolesReturned
    /\ args.card_data.supertype = "Pokémon"
    /\ args.card_data.hp = 200
    /\ Get(args.effects, "damage_amount", 0) = 80
    /\ "main_attacker" \in Keys(ret.value)

(***************************************************************************)
(* Card text.  A text is the sequence of its words, which a single space   *)
(* separates; a number is a word of digits.  The substring and regular     *)
(* expression tests of the source are made on whole words.                 *)
(***************************************************************************)
NumberWords == {"0", "1", "2", "3", "120"}

IsNum(word) == word \in NumberWords

\* int(match)
IntOf(word) ==
    CASE word = "0" -> 0
      [] word = "1" -> 1
      [] word = "2" -> 2
      [] word = "3" -> 3
      [] word = "120" -> 120

\* text.lower()
LowerText(text) == [i \in DOMAIN text |-> Lower(text[i])]

\* re.findall(r'word (\d+)', t) from word i on: the matches do not overlap
\* and are found left to right.
RECURSIVE FindAfterWord(_, _, _)
FindAfterWord(t, word, i) ==
    IF i >= Len(t) THEN <<>>
    ELSE IF t[i] = word /\ IsNum(t[i + 1])
    THEN <<IntOf(t[i + 1])>> \o FindAfterWord(t, word, i + 2)
    ELSE FindAfterWord(t, word, i + 1)

\* re.findall(r'(\d+) word', t) from word i on.
RECURSIVE FindBeforeWord(_, _, _)
FindBeforeWord(t, word, i) ==
    IF i >= Len(t) THEN <<>>
    ELSE IF IsNum(t[i]) /\ t[i + 1] = word
    THEN <<IntOf(t[i])>> \o FindBeforeWord(t, word, i + 2)
    ELSE FindBeforeWord(t, word, i + 1)

\* re.findall(r'search.*?(\d+)', t) from word i on: the lazy .*? stops at
\* the first number after 'search'.
RECURSIVE FindSearch(_, _)
FindSearch(t, i) ==
    IF i >= Len(t) THEN <<>>
    ELSE IF t[i] = "search" /\ \E j \in (i + 1)..Len(t) : IsNum(t[j])
    THEN LET j == CHOOSE j \in (i + 1)..Len(t) :
                     IsNum(t[j]) /\ \A k \in (i + 1)..(j - 1) : ~IsNum(t[k])
         IN  <<IntOf(t[j])>> \o FindSearch(t, j + 1)
    ELSE FindSearch(t, i + 1)

\* re.findall(r'(\d+).*?energy', t) from word i on: the match starts at a
\* number and the lazy .*? stops at the first 'energy' after it.
RECURSIVE FindEnergy(_, _)
FindEnergy(t, i) ==
    IF i >= Len(t) THEN <<>>
    ELSE IF IsNum(t[i]) /\ \E j \in (i + 1)..Len(t) : t[j] = "energy"
    THEN LET j == CHOOSE j \in (i + 1)..Len(t) :
                     t[j] = "energy" /\ \A k \in (i + 1)..(j - 1) : t[k] # "energy"
         IN  <<IntOf(t[i])>> \o FindEnergy(t, j + 1)
    ELSE FindEnergy(t, i + 1)

EffectTypes ==
    {"draw_amount", "damage_amount", "discard_amount", "search_amount",
     "energy_cost", "heal_amount"}

\* re.findall(patterns[effect_type], text.lower())
findall(effect_type, t) ==
    CASE effect_type = "draw_amount" -> FindAfterWord(t, "draw", 1)
      [] effect_type = "damage_amount" -> FindBeforeWord(t, "damage", 1)
      [] effect_type = "discard_amount" -> FindAfterWord(t, "discard", 1)
      [] effect_type = "search_amount" -> FindSearch(t, 1)
      [] effect_type = "energy_cost" -> FindEnergy(t, 1)
      [] effect_type = "heal_amount" -> FindAfterWord(t, "heal", 1)

\* Mutant of MaxOf: the first match is taken.
MaxOf_First(matches) == matches[1]

\* max(int(match) for match in matches)
MaxOf(matches) ==
    CHOOSE m \in {matches[i] : i \in DOMAIN matches} :
        \A i \in DOMAIN matches : matches[i] <= m

_extract_numerical_effects(text) ==
    LET t == LowerText(text)
        matched == {effect_type \in EffectTypes : findall(effect_type, t) # <<>>}
    IN  [effect_type \in matched |-> MaxOf(findall(effect_type, t))]

(***************************************************************************)
(* Inputs of the numeric extraction                                        *)
(***************************************************************************)
MaxTextLen == 4

RECURSIVE SeqsUpTo(_, _)
SeqsUpTo(S, n) ==
    IF n = 0 THEN {<<>>}
    ELSE LET shorter == SeqsUpTo(S, n - 1)
         IN  shorter \cup {Append(q, x) : q \in {r \in shorter : Len(r) = n - 1}, x \in S}

NumericWords ==
    {"draw", "damage", "discard", "search", "energy", "heal", "1", "3", "cards"}

DrawTwiceText == <<"draw", "1", "card,", "then", "draw", "3", "more">>
DrawAndDamageText == <<"Draw", "3", "cards", "and", "deal", "120", "damage">>

NumericTexts == SeqsUpTo(NumericWords, MaxTextLen) \cup {DrawTwiceText, DrawAndDamageText}

InitNumeric ==
    /\ pc = "call"
    /\ args \in [text : NumericTexts]
    /\ ret = NoResult
    /\ store = <<>>
    /\ nlp = "model"
    /\ state = None

ExtractNumericalEffects ==
    /\ pc = "call"
    /\ DOMAIN args = {"text"}
    /\ ret' = Return(_extract_numerical_effects(args.text))
    /\ pc' = "done"
    /\ UNCHANGED <<args, store, nlp, state>>

NextNumeric == ExtractNumericalEffects

SpecNumeric == InitNumeric /\ [][NextNumeric]_vars

\* The numbers a pattern captures in text t, stated by position: the number
\* next to the word; the first number after a 'search'; the first number
\* since the previous 'energy' (or the start) that an 'energy' follows.
Captured(effect_type, t) ==
    LET N == DOMAIN t
        after(word) == {IntOf(t[i + 1]) : i \in {k \in N : k < Len(t) /\ t[k] = word /\ IsNum(t[k + 1])}}
    IN  CASE effect_type = "draw_amount" -> after("draw")
          [] effect_type = "discard_amount" -> after("discard")
          [] effect_type = "heal_amount" -> after("heal")
          [] effect_type = "damage_amount" ->
               {IntOf(t[i]) : i \in {k \in N : k < Len(t) /\ IsNum(t[k]) /\ t[k + 1] = "damage"}}
          [] effect_type = "search_amount" ->
               {IntOf(t[j]) : j \in {k \in N : /\ IsNum(t[k])
                                                /\ \E i \in 1..(k - 1) :
                                                     /\ t[i] = "search"
                                                     /\ \A l \in (i + 1)..(k - 1) : ~IsNum(t[l])}}
          [] effect_type = "energy_cost" ->
               {IntOf(t[i]) : i \in {k \in N : /\ IsNum(t[k])
                                                /\ \E j \in (k + 1)..Len(t) : t[j] = "energy"
                                                /\ \A h \in 1..(k - 1) :
                                                     IsNum(t[h]) => \E l \in (h + 1)..(k - 1) : t[l] = "energy"}}

NumericDone == pc = "done" /\ DOMAIN args = {"text"}

\* C7: the returned dict has a key exactly for the effect kinds whose
\* pattern matches the text, the value is the maximum of the matched
\* numbers, and the two texts of the specification give draw_amount = 3 and
\* exactly {draw_amount: 3, damage_amount: 120}.
C7_MaxOfMatches ==
    NumericDone =>
        /\ ret.kind = "return"
        /\ \A effect_type \in EffectTypes :
              LET captured == Captured(effect_type, LowerText(args.text))
              IN  /\ effect_type \in DOMAIN ret.value <=> captured # {}
                  /\ effect_type \in DOMAIN ret.value =>
                        /\ ret.value[effect_type] \in captured
                        /\ \A c \in captured : c <= ret.value[effect_type]
        /\ args.text = DrawTwiceText => ret.value["draw_amount"] = 3
        /\ args.text = DrawAndDamageText =>
              /\ DOMAIN ret.value = {"draw_amount", "damage_amount"}
              /\ ret.value["draw_amount"] = 3
              /\ ret.value["damage_amount"] = 120

\* A text with two different draw amounts, the smaller one first, was analysed.
C7_Witness ==
    /\ NumericDone
    /\ \E i, j \in DOMAIN args.text :
          /\ i + 1 < j /\ j < Len(args.text)
          /\ Lower(args.text[i]) = "draw" /\ Lower(args.text[j]) = "draw"
          /\ IsNum(args.text[i + 1]) /\ IsNum(args.text[j + 1])
          /\ IntOf(args.text[i + 1]) < IntOf(args.text[j + 1])

(***************************************************************************)
(* Semantic keywords                                                       *)
(***************************************************************************)
SEMANTIC_PATTERNS ==
    [draw |-> {<<"draw">>, <<"reveal">>, <<"look", "at">>, <<"search">>,
               <<"put", "into", "hand">>},
     damage |-> {<<"damage">>, <<"knock", "out">>, <<"destroy">>, <<"discard">>,
                 <<"put", "damage">>},
     energy |-> {<<"energy">>, <<"attach">>, <<"accelerate">>, <<"basic", "energy">>,
                 <<"special", "energy">>},
     heal |-> {<<"heal">>, <<"remove", "damage">>, <<"restore">>, <<"recover">>},
     disrupt |-> {<<"discard">>, <<"shuffle">>, <<"prevent">>, <<"block">>, <<"switch">>},
     setup |-> {<<"bench">>, <<"play">>, <<"put", "into", "play">>, <<"evolve">>,
                <<"search">>},
     protection |-> {<<"prevent">>, <<"immune">>, <<"resist">>, <<"protect">>,
                     <<"cannot", "be">>},
     movement |-> {<<"switch">>, <<"retreat">>, <<"return">>, <<"move">>, <<"swap">>}]

\* pattern in text_lower
Contains(t, pattern) ==
    \E i \in 1..(Len(t) - Len(pattern) + 1) : SubSeq(t, i, i + Len(pattern) - 1) = pattern

\* Mutant of CategoryKeywords: the one-word patterns found are keywords too.
CategoryKeywords_WithPatterns(text) ==
    {category \in DOMAIN SEMANTIC_PATTERNS :
        \E pattern \in SEMANTIC_PATTERNS[category] : Contains(LowerText(text), pattern)}
    \cup {pattern[1] : pattern \in
             {q \in UNION {SEMANTIC_PATTERNS[c] : c \in DOMAIN SEMANTIC_PATTERNS} :
                 Len(q) = 1 /\ Contains(LowerText(text), q)}}

\* The categories with a pattern in the text (lines 344-348).
CategoryKeywords(text) ==
    {category \in DOMAIN SEMANTIC_PATTERNS :
        \E pattern \in SEMANTIC_PATTERNS[category] : Contains(LowerText(text), pattern)}

\* The words of a text that the token filter of lines 356-359 lets through
\* when the tagger calls them verbs or nouns: longer than two characters,
\* not a number, not one of the excluded words.
ShortWords == {"at", "be", "if"}
ExcludedWords == {"card", "cards", "pokemon", "turn"}

LexicalCandidates(text) ==
    {Lower(text[i]) : i \in DOMAIN text} \ (ShortWords \cup ExcludedWords \cup NumberWords)

\* What self.nlp(text) does for one text: it raises, or it yields a
\* document of which the filter keeps the lemmas in tokens.
DocOutcomes(text) ==
    {[raises |-> TRUE, tokens |-> {}]}
    \cup {[raises |-> FALSE, tokens |-> T] : T \in SUBSET LexicalCandidates(text)}

\* self.nlp is the loaded model or None; a text is empty when it has no word.
_extract_semantic_keywords(self_nlp, text, doc) ==
    IF text = <<>> \/ self_nlp = None THEN {}
    ELSE IF doc.raises THEN CategoryKeywords(text)
    ELSE CategoryKeywords(text) \cup doc.tokens

(***************************************************************************)
(* Construction of the analyzer and keyword extraction                     *)
(***************************************************************************)
MaxSemanticLen == 2

SemanticWords ==
    {"Draw", "search", "discard", "switch", "attach", "energy", "look", "at", "cards", "3"}

SemanticArgs ==
    {[text |-> t, capability |-> c, doc |-> d] :
        t \in SeqsUpTo(SemanticWords, MaxSemanticLen),
        c \in {"available", "missing"},
        d \in UNION {DocOutcomes(u) : u \in SeqsUpTo(SemanticWords, MaxSemanticLen)}}

InitSemantic ==
    /\ pc = "new"
    /\ args \in {a \in SemanticArgs : a.doc \in DocOutcomes(a.text)}
    /\ ret = NoResult
    /\ store = <<>>
    /\ nlp = None
    /\ state = None

\* CardAnalyzer.__init__: self.nlp = None, then _load_nlp_model, which
\* re-raises the OSError of spacy.load when the model is not installed.
Construct ==
    /\ pc = "new"
    /\ "capability" \in DOMAIN args
    /\ IF args.capability = "missing"
       THEN /\ nlp' = None
            /\ ret' = Raise("OSError")
            /\ pc' = "failed"
       ELSE /\ nlp' = "model"
            /\ ret' = NoResult
            /\ pc' = "call"
    /\ UNCHANGED <<args, store, state>>

ExtractSemanticKeywords ==
    /\ pc = "call"
    /\ "doc" \in DOMAIN args
    /\ ret' = Return(_extract_semantic_keywords(nlp, args.text, args.doc))
    /\ pc' = "done"
    /\ UNCHANGED <<args, store, nlp, state>>

NextSemantic == Construct \/ ExtractSemanticKeywords

SpecSemantic == InitSemantic /\ [][NextSemantic]_vars

\* C10: when the text-analysis capability is missing, or raises on the
\* text, the keywords of a non-empty text are still returned: the
\* categories found by pattern matching, and no exception reaches the caller.
C10_PatternOnlyFallback ==
    /\ "doc" \in DOMAIN args
    /\ pc \in {"done", "failed"}
    /\ args.text # <<>>
    /\ (args.capability = "missing" \/ args.doc.raises)
    => ret = Return(CategoryKeywords(args.text))

(***************************************************************************)
(* Synergy tags                                                            *)
(***************************************************************************)
\* f"{x}_synergy"
SynergyTag(x) ==
    CASE x = "draw" -> "draw_synergy"
      [] x = "search" -> "search_synergy"
      [] x = "energy" -> "energy_synergy"
      [] x = "heal" -> "heal_synergy"
      [] x = "disrupt" -> "disrupt_synergy"
      [] x = "pokémon" -> "pokémon_synergy"
      [] x = "trainer" -> "trainer_synergy"
      [] x = "" -> "_synergy"

\* list(set(tags)); supertype.lower() raises AttributeError for None.
_generate_synergy_tags(keywords, supertype, types) ==
    IF supertype = None THEN Raise("AttributeError")
    ELSE Return({types[i] : i \in DOMAIN types}
                \cup {SynergyTag(keyword) :
                        keyword \in keywords \cap {"draw", "search", "energy", "heal", "disrupt"}}
                \cup {SynergyTag(Lower(supertype))})

(***************************************************************************)
(* Synergy engine                                                          *)
(***************************************************************************)
IntMax(a, b) == IF a >= b THEN a ELSE b

Replicate(x, n) == [i \in 1..n |-> x]

\* card_lookup = {features.name: features for features in card_features}:
\* the last features of a name win.
InLookup(card_features, name) == \E i \in DOMAIN card_features : card_features[i].name = name

card_lookup(card_features, name) ==
    card_features[CHOOSE i \in DOMAIN card_features :
                    /\ card_features[i].name = name
                    /\ \A j \in DOMAIN card_features : card_features[j].name = name => j <= i]

\* A decklist is a dict: the sequence of its <<card_name, quantity>> items.
\* Mutant of DeckCards: a name without features stops the expansion.
RECURSIVE DeckCards_StopAtUnknown(_, _)
DeckCards_StopAtUnknown(decklist, card_features) ==
    IF decklist = <<>> THEN <<>>
    ELSE IF InLookup(card_features, Head(decklist)[1])
    THEN Replicate(card_lookup(card_features, Head(decklist)[1]), Head(decklist)[2])
         \o DeckCards_StopAtUnknown(Tail(decklist), card_features)
    ELSE <<>>

\* deck_cards of detect_synergies (lines 672-675).
RECURSIVE DeckCards(_, _)
DeckCards(decklist, card_features) ==
    IF decklist = <<>> THEN <<>>
    ELSE (IF InLookup(card_features, Head(decklist)[1])
          THEN Replicate(card_lookup(card_features, Head(decklist)[1]), Head(decklist)[2])
          ELSE <<>>)
         \o DeckCards(Tail(decklist), card_features)

\* What self.nlp does with a text under a given tagger: "raises", "silent"
\* (no token is a verb or a noun) or "nouns" (every candidate is kept).
Doc(tagger, text) ==
    [raises |-> tagger = "raises",
     tokens |-> IF tagger = "nouns" THEN LexicalCandidates(text) ELSE {}]

\* The keywords of the texts of a list of abilities or attacks.
TextKeywords(self_nlp, tagger, items) ==
    UNION {_extract_semantic_keywords(self_nlp, items[i].text, Doc(tagger, items[i].text)) :
             i \in DOMAIN items}

\* Mutant of _calculate_intra_card_synergy: the total is divided by the
\* number of deck cards, qualifying or not.
_calculate_intra_card_synergy_OverAllCards(self_nlp, tagger, deck_cards) ==
    LET qualifying == SelectSeq(deck_cards, LAMBDA card : card.abilities # <<>> /\ card.attacks # <<>>)
        synergy_score(card) ==
            LET ability_keywords == TextKeywords(self_nlp, tagger, card.abilities)
                attack_keywords == TextKeywords(self_nlp, tagger, card.attacks)
                overlap == Cardinality(ability_keywords \cap attack_keywords)
            IN  FDiv(FromInt(overlap),
                     FromInt(IntMax(IntMax(Cardinality(ability_keywords),
                                           Cardinality(attack_keywords)), 1)))
        total_synergy == FSum([i \in DOMAIN qualifying |-> synergy_score(qualifying[i])])
    IN  FDiv(total_synergy, FromInt(IntMax(Len(deck_cards), 1)))

_calculate_intra_card_synergy(self_nlp, tagger, deck_cards) ==
    LET qualifying == SelectSeq(deck_cards, LAMBDA card : card.abilities # <<>> /\ card.attacks # <<>>)
        synergy_score(card) ==
            LET ability_keywords == TextKeywords(self_nlp, tagger, card.abilities)
                attack_keywords == TextKeywords(self_nlp, tagger, card.attacks)
                overlap == Cardinality(ability_keywords \cap attack_keywords)
            IN  FDiv(FromInt(overlap),
                     FromInt(IntMax(IntMax(Cardinality(ability_keywords),
                                           Cardinality(attack_keywords)), 1)))
        total_synergy == FSum([i \in DOMAIN qualifying |-> synergy_score(qualifying[i])])
    IN  FDiv(total_synergy, FromInt(IntMax(Len(qualifying), 1)))

complementary_pairs ==
    <<(<<"main_attacker", "setup_pokemon">>),
      (<<"main_attacker", "energy_acceleration">>),
      (<<"draw_engine", "main_attacker">>),
      (<<"search_item", "main_attacker">>),
      (<<"wall", "pivot">>)>>

\* Mutant of _are_roles_complementary: each pair is tried in one direction.
_are_roles_complementary_OneWay(roles1, roles2) ==
    \E i \in DOMAIN complementary_pairs :
        LET role1 == complementary_pairs[i][1]
            role2 == complementary_pairs[i][2]
        IN  role1 \in roles1 /\ role2 \in roles2

\* roles1 and roles2 are the key sets of the two role dicts.
_are_roles_complementary(roles1, roles2) ==
    \E i \in DOMAIN complementary_pairs :
        LET role1 == complementary_pairs[i][1]
            role2 == complementary_pairs[i][2]
        IN  (role1 \in roles1 /\ role2 \in roles2) \/ (role2 \in roles1 /\ role1 \in roles2)

\* Mutant of _calculate_pair_synergy: the score is not capped.
_calculate_pair_synergy_uncapped(card1, card2) ==
    LET tag_overlap == Cardinality(card1.synergy_tags \cap card2.synergy_tags)
        keyword_overlap == Cardinality(card1.semantic_keywords \cap card2.semantic_keywords)
        s1 == FAdd(FZero, FMulInt(tag_overlap, F0_2))
        s2 == IF _are_roles_complementary(Keys(card1.roles), Keys(card2.roles))
              THEN FAdd(s1, F0_4) ELSE s1
        s3 == IF /\ card1.supertype = "Pokémon" /\ card2.supertype = "Pokémon"
                 /\ {card1.types[i] : i \in DOMAIN card1.types}
                      \cap {card2.types[i] : i \in DOMAIN card2.types} # {}
              THEN FAdd(s2, F0_3) ELSE s2
    IN  FAdd(s3, FMulInt(keyword_overlap, F0_1))

_calculate_pair_synergy(card1, card2) ==
    LET tag_overlap == Cardinality(card1.synergy_tags \cap card2.synergy_tags)
        keyword_overlap == Cardinality(card1.semantic_keywords \cap card2.semantic_keywords)
        s1 == FAdd(FZero, FMulInt(tag_overlap, F0_2))
        s2 == IF _are_roles_complementary(Keys(card1.roles), Keys(card2.roles))
              THEN FAdd(s1, F0_4) ELSE s1
        s3 == IF /\ card1.supertype = "Pokémon" /\ card2.supertype = "Pokémon"
                 /\ {card1.types[i] : i \in DOMAIN card1.types}
                      \cap {card2.types[i] : i \in DOMAIN card2.types} # {}
              THEN FAdd(s2, F0_3) ELSE s2
        s4 == FAdd(s3, FMulInt(keyword_overlap, F0_1))
    IN  FMin(s4, One)

RECURSIVE SortedPrefix(_, _)
SortedPrefix(synergies, n) ==
    IF n = 0 THEN <<>>
    ELSE LET sorted == SortedPrefix(synergies, n - 1)
             k == Cardinality({i \in DOMAIN sorted : FLe(synergies[n][3], sorted[i][3])})
         IN  SubSeq(sorted, 1, k) \o <<synergies[n]>> \o SubSeq(sorted, k + 1, Len(sorted))

\* synergies.sort(key=lambda x: x[2], reverse=True): a stable sort, the
\* entries of equal score keep their order.
SortByScoreDescending(synergies) == SortedPrefix(synergies, Len(synergies))

\* Mutant of TopSynergies: the list is not truncated.
TopSynergies_All(synergies) == synergies

\* synergies[:10]
TopSynergies(synergies) == SubSeq(synergies, 1, IF Len(synergies) < 10 THEN Len(synergies) ELSE 10)

\* Mutant of _calculate_inter_card_synergies: the pairs of equal card_id
\* are scored too.
_calculate_inter_card_synergies_AllPairs(deck_cards) ==
    LET n == Len(deck_cards)
        pairs == SelectSeq([k \in 1..(n * n) |-> <<((k - 1) \div n) + 1, ((k - 1) % n) + 1>>],
                           LAMBDA p : p[1] < p[2])
        scored == [k \in DOMAIN pairs |->
                     <<deck_cards[pairs[k][1]].name, deck_cards[pairs[k][2]].name,
                       _calculate_pair_synergy(deck_cards[pairs[k][1]], deck_cards[pairs[k][2]])>>]
        synergies == SelectSeq(scored, LAMBDA e : FLt(F0_3, e[3]))
    IN  TopSynergies(SortByScoreDescending(synergies))

_calculate_inter_card_synergies(deck_cards) ==
    LET n == Len(deck_cards)
        \* the pairs (i, j), i < j, in the order of the two loops
        pairs == SelectSeq([k \in 1..(n * n) |-> <<((k - 1) \div n) + 1, ((k - 1) % n) + 1>>],
                           LAMBDA p : p[1] < p[2] /\ deck_cards[p[1]].card_id # deck_cards[p[2]].card_id)
        scored == [k \in DOMAIN pairs |->
                     <<deck_cards[pairs[k][1]].name, deck_cards[pairs[k][2]].name,
                       _calculate_pair_synergy(deck_cards[pairs[k][1]], deck_cards[pairs[k][2]])>>]
        synergies == SelectSeq(scored, LAMBDA e : FLt(F0_3, e[3]))
    IN  TopSynergies(SortByScoreDescending(synergies))

ARCHETYPES == <<"aggro", "control", "toolbox", "engine", "midrange", "combo", "stall">>

ArchetypeSet == {ARCHETYPES[i] : i \in DOMAIN ARCHETYPES}

\* role_counts[role]: the number of deck cards whose roles dict has the key.
RoleCount(deck_cards, role) ==
    Cardinality({i \in DOMAIN deck_cards : role \in Keys(deck_cards[i].roles)})

\* Mutant of Capped: the ratio is kept as it is.
Capped_Not(score) == score

\* min(score, 1.0)
Capped(score) == FMin(score, One)

\* max(archetype_scores.values())
MaxScore(archetype_scores) ==
    CHOOSE m \in {archetype_scores[a] : a \in ArchetypeSet} :
        \A a \in ArchetypeSet : FLe(archetype_scores[a], m)

_evaluate_archetype_fit(deck_cards) ==
    LET total_cards == Len(deck_cards)
        count(role) == RoleCount(deck_cards, role)
        ratio(n) == FDiv(FromInt(n), FromInt(total_cards))
        zero == [a \in ArchetypeSet |-> FZero]
        counted == [a \in ArchetypeSet |->
            CASE a = "aggro" -> Capped(ratio(count("main_attacker") + count("secondary_attacker")))
              [] a = "control" -> Capped(ratio(count("disruptor") + count("draw_engine") + count("wall")))
              [] a = "engine" -> Capped(ratio(count("draw_engine") + count("setup_pokemon") + count("search_item")))
              [] a = "toolbox" -> Capped(ratio(count("utility") + count("tech") + count("pivot")))
              [] a = "combo" -> Capped(ratio(count("energy_acceleration")))
              [] a = "stall" -> Capped(ratio(count("wall") + count("heal")))
              [] a = "midrange" -> FZero]
        top == MaxScore(counted)
        \* max(1.0 - top, 0.0); the difference is negative when top > 1.0
        midrange == IF FLt(One, top) THEN FZero ELSE FMax(FSub(One, top), FZero)
    IN  IF total_cards = 0 THEN zero
        ELSE [counted EXCEPT !["midrange"] = midrange]

(***************************************************************************)
(* Conditions, pros and cons                                               *)
(***************************************************************************)
\* The trigger phrases; 'if ' and 'when ' end with a space, so the word must
\* not be the last one of the text.
_extract_conditions(text) ==
    LET t == LowerText(text)
        followed(word) == \E i \in 1..(Len(t) - 1) : t[i] = word
    IN  IF text = <<>> THEN {}
        ELSE {c \in {"if", "when", "once during", "only if", "before you", "after you",
                     "during your turn", "flip a coin", "discard"} :
                CASE c = "if" -> followed("if")
                  [] c = "when" -> followed("when")
                  [] c = "once during" -> Contains(t, <<"once", "during">>)
                  [] c = "only if" -> Contains(t, <<"only", "if">>)
                  [] c = "before you" -> Contains(t, <<"before", "you">>)
                  [] c = "after you" -> Contains(t, <<"after", "you">>)
                  [] c = "during your turn" -> Contains(t, <<"during", "your", "turn">>)
                  [] c = "flip a coin" -> Contains(t, <<"flip", "a", "coin">>)
                  [] c = "discard" -> Contains(t, <<"discard">>)}

\* f"Strong draw power ({draw_amount} cards)"
StrongDrawPower(draw_amount) ==
    CASE draw_amount = 3 -> "Strong draw power (3 cards)"
      [] draw_amount = 120 -> "Strong draw power (120 cards)"

\* _analyze_pros_cons with two of its choices open: whether the retreat
\* cost analysis stands before the HP analysis, and the retreat cost from
\* which the cost is called high.
ProsConsVariant(card_data, keywords, effects, retreat_first, high_retreat) ==
    IF card_data.supertype = None THEN <<(<<>>), (<<>>)>>
    ELSE
    LET hp == OrZero(card_data.hp)
        retreat_cost == OrZero(card_data.retreat_cost)
        pokemon == Lower(card_data.supertype) = "pokémon"
        damage == Get(effects, "damage_amount", 0)
        draw_amount == Get(effects, "draw_amount", 1)
        Line(cond, str) == IF cond THEN <<str>> ELSE <<>>
        hp_pros == IF hp >= 250 THEN <<"Very high HP for survivability">>
                   ELSE IF hp >= 180 THEN <<"Good HP for tanking hits">>
                   ELSE <<>>
        retreat_pros == Line(retreat_cost = 0, "Free retreat for easy pivoting")
        pros ==
            (IF ~pokemon THEN <<>>
             ELSE (IF retreat_first THEN retreat_pros \o hp_pros ELSE hp_pros \o retreat_pros)
                  \o (IF damage >= 200 THEN <<"High damage output">>
                      ELSE IF damage >= 120 THEN <<"Decent damage for prizes">>
                      ELSE <<>>))
            \o (IF "draw" \notin keywords THEN <<>>
                ELSE IF draw_amount >= 3 THEN <<StrongDrawPower(draw_amount)>>
                ELSE <<"Provides card draw">>)
            \o Line("search" \in keywords, "Tutoring effect for consistency")
            \o Line("energy" \in keywords /\ "attach" \in keywords, "Energy acceleration capability")
            \o Line("protection" \in keywords, "Defensive capabilities")
            \o Line("disrupt" \in keywords, "Disruption potential")
        cons ==
            (IF ~pokemon THEN <<>>
             ELSE Line(hp < 180 /\ hp <= 70, "Low HP, vulnerable to knockouts")
                  \o Line(retreat_cost # 0 /\ retreat_cost >= high_retreat,
                          "High retreat cost limits mobility")
                  \o Line(damage < 120 /\ damage <= 60, "Low damage output"))
            \o Line(Get(effects, "discard_amount", 0) > 0, "Requires discarding resources")
    IN  <<pros, cons>>

\* Mutant of _analyze_pros_cons: the retreat cost is analysed before the HP.
_analyze_pros_cons_RetreatFirst(card_data, keywords, effects) ==
    ProsConsVariant(card_data, keywords, effects, TRUE, 3)

\* Mutant of _analyze_pros_cons: "elif retreat_cost > 3".
_analyze_pros_cons_RetreatAbove3(card_data, keywords, effects) ==
    ProsConsVariant(card_data, keywords, effects, FALSE, 4)

\* <<pros, cons>>.  card_data.get('supertype', '').lower() raises inside the
\* try block when the supertype is None, before anything is appended.
_analyze_pros_cons(card_data, keywords, effects) ==
    IF card_data.supertype = None THEN <<(<<>>), (<<>>)>>
    ELSE
    LET hp == OrZero(card_data.hp)
        retreat_cost == OrZero(card_data.retreat_cost)
        pokemon == Lower(card_data.supertype) = "pokémon"
        damage == Get(effects, "damage_amount", 0)
        draw_amount == Get(effects, "draw_amount", 1)
        Line(cond, str) == IF cond THEN <<str>> ELSE <<>>
        pros ==
            (IF ~pokemon THEN <<>>
             ELSE (IF hp >= 250 THEN <<"Very high HP for survivability">>
                   ELSE IF hp >= 180 THEN <<"Good HP for tanking hits">>
                   ELSE <<>>)
                  \o Line(retreat_cost = 0, "Free retreat for easy pivoting")
                  \o (IF damage >= 200 THEN <<"High damage output">>
                      ELSE IF damage >= 120 THEN <<"Decent damage for prizes">>
                      ELSE <<>>))
            \o (IF "draw" \notin keywords THEN <<>>
                ELSE IF draw_amount >= 3 THEN <<StrongDrawPower(draw_amount)>>
                ELSE <<"Provides card draw">>)
            \o Line("search" \in keywords, "Tutoring effect for consistency")
            \o Line("energy" \in keywords /\ "attach" \in keywords, "Energy acceleration capability")
            \o Line("protection" \in keywords, "Defensive capabilities")
            \o Line("disrupt" \in keywords, "Disruption potential")
        cons ==
            (IF ~pokemon THEN <<>>
             ELSE Line(hp < 180 /\ hp <= 70, "Low HP, vulnerable to knockouts")
                  \o Line(retreat_cost # 0 /\ retreat_cost >= 3, "High retreat cost limits mobility")
                  \o Line(damage < 120 /\ damage <= 60, "Low damage output"))
            \* effects is the numerical_effects dict: it has no 'conditions' key,
            \* so ' '.join(effects.get('conditions', [])) is the empty string
            \o Line("conditions" \in DOMAIN effects /\ "flip a coin" \in effects.conditions,
                    "Relies on coin flips (inconsistent)")
            \o Line(Get(effects, "discard_amount", 0) > 0, "Requires discarding resources")
    IN  <<pros, cons>>

(***************************************************************************)
(* Stored columns and feature extraction                                   *)
(***************************************************************************)
\* A TEXT column of the cards table is NULL or empty ("null"), a string
\* that starts with '[' and decodes to the list items ("json"), a string
\* that starts with '[' and does not decode ("badjson"), or another string
\* ("text").  A decoded attack or ability is an object [kind |-> "object",
\* name, text] or something else, such as a number.
NullColumn == [form |-> "null"]
JsonColumn(items) == [form |-> "json", items |-> items]
TextColumn(str) == [form |-> "text", text |-> str]
BadJsonColumn(str, parts) == [form |-> "badjson", text |-> str, parts |-> parts]
Obj(name, text) == [kind |-> "object", name |-> name, text |-> text]

\* _parse_attacks and _parse_abilities
_parse_attacks(column) == IF column.form = "json" THEN column.items ELSE <<>>

\* _parse_rules
_parse_rules(column) ==
    CASE column.form = "null" -> <<>>
      [] column.form = "json" -> column.items
      [] column.form = "text" -> <<column.text>>
      [] column.form = "badjson" -> <<column.text>>

\* _parse_types: [types_str] for a string that does not start with '['
_parse_types(column) ==
    CASE column.form = "null" -> <<>>
      [] column.form = "json" -> column.items
      [] column.form = "text" -> <<column.text>>
      [] column.form = "badjson" -> column.parts

\* The text parts of the attacks or abilities: text, then name.
RECURSIVE ItemText(_)
ItemText(items) ==
    IF items = <<>> THEN <<>>
    ELSE Head(items).text \o Head(items).name \o ItemText(Tail(items))

RECURSIVE JoinAll(_)
JoinAll(texts) == IF texts = <<>> THEN <<>> ELSE Head(texts) \o JoinAll(Tail(texts))

\* 'text' in attack raises TypeError when a decoded item is not an object.
_combine_card_text(attacks, abilities, rules) ==
    IF \E i \in DOMAIN attacks : attacks[i].kind # "object" THEN Raise("TypeError")
    ELSE IF \E i \in DOMAIN abilities : abilities[i].kind # "object" THEN Raise("TypeError")
    ELSE Return(ItemText(attacks) \o ItemText(abilities) \o JoinAll(rules))

\* The CardFeatures of one row, or the exception that _extract_single_card_features
\* logs and raises again.
_extract_single_card_features(self_nlp, tagger, card_data) ==
    LET types == _parse_types(card_data.types)
        attacks == _parse_attacks(card_data.attacks)
        abilities == _parse_attacks(card_data.abilities)
        rules == _parse_rules(card_data.rules)
        combined == _combine_card_text(attacks, abilities, rules)
        all_text == combined.value
        semantic_keywords == _extract_semantic_keywords(self_nlp, all_text, Doc(tagger, all_text))
        numerical_effects == _extract_numerical_effects(all_text)
        roles == _categorize_card_roles(card_data, semantic_keywords, numerical_effects)
        pros_cons == _analyze_pros_cons(card_data, semantic_keywords, numerical_effects)
        synergy_tags == _generate_synergy_tags(semantic_keywords, card_data.supertype, types)
    IN  IF combined.kind = "raise" THEN combined
        ELSE IF roles.kind = "raise" THEN roles
        ELSE IF synergy_tags.kind = "raise" THEN synergy_tags
        ELSE Return([card_id |-> card_data.card_id,
                     name |-> card_data.name,
                     supertype |-> card_data.supertype,
                     subtype |-> card_data.subtype,
                     hp |-> card_data.hp,
                     types |-> types,
                     retreat_cost |-> card_data.retreat_cost,
                     attacks |-> attacks,
                     abilities |-> abilities,
                     rules |-> rules,
                     semantic_keywords |-> semantic_keywords,
                     numerical_effects |-> numerical_effects,
                     conditions |-> _extract_conditions(all_text),
                     roles |-> roles.value,
                     pros |-> pros_cons[1],
                     cons |-> pros_cons[2],
                     synergy_tags |-> synergy_tags.value])

\* The rows the query of extract_card_features selects: all of them when
\* card_id is None or empty, else the rows of that id.
SelectedRows(rows, card_id) ==
    IF card_id = None \/ card_id = "" THEN rows
    ELSE SelectSeq(rows, LAMBDA row : row.card_id = card_id)

\* extract_card_features: the list of the features of the selected rows;
\* the first exception of a row leaves the loop and is raised again.
extract_card_features(self_nlp, tagger, rows, card_id) ==
    LET cards_data == SelectedRows(rows, card_id)
        extracted == [i \in DOMAIN cards_data |->
                        _extract_single_card_features(self_nlp, tagger, cards_data[i])]
    IN  IF \E i \in DOMAIN extracted : extracted[i].kind = "raise"
        THEN extracted[CHOOSE i \in DOMAIN extracted :
                         /\ extracted[i].kind = "raise"
                         /\ \A j \in 1..(i - 1) : extracted[j].kind = "return"]
        ELSE Return([i \in DOMAIN extracted |-> extracted[i].value])

(***************************************************************************)
(* Recommendations and detect_synergies                                    *)
(***************************************************************************)
Recommendation(type, suggestion, reason, priority, cards) ==
    [type |-> type, suggestion |-> suggestion, reason |-> reason, priority |-> priority,
     cards |-> cards]

\* Mutant of PrimaryArchetype: the last archetype of the highest score.
PrimaryArchetype_LastOfTies(archetype_fit) ==
    ARCHETYPES[CHOOSE i \in DOMAIN ARCHETYPES :
                 /\ \A j \in DOMAIN ARCHETYPES :
                        FLe(archetype_fit[ARCHETYPES[j]], archetype_fit[ARCHETYPES[i]])
                 /\ \A j \in (i + 1)..Len(ARCHETYPES) :
                        FLt(archetype_fit[ARCHETYPES[j]], archetype_fit[ARCHETYPES[i]])]

\* max(archetype_fit.items(), key=lambda x: x[1])[0]: the first archetype,
\* in dict order, of the highest score.
PrimaryArchetype(archetype_fit) ==
    ARCHETYPES[CHOOSE i \in DOMAIN ARCHETYPES :
                 /\ \A j \in DOMAIN ARCHETYPES :
                        FLe(archetype_fit[ARCHETYPES[j]], archetype_fit[ARCHETYPES[i]])
                 /\ \A j \in 1..(i - 1) :
                        FLt(archetype_fit[ARCHETYPES[j]], archetype_fit[ARCHETYPES[i]])]

\* _generate_deck_recommendations with two of its decisions open: whether
\* the archetype rules are those of the primary archetype only, and the
\* number of synergy tags below which a card counts as low in synergy.
RecommendationsVariant(deck_cards, archetype_fit, only_primary, min_tags) ==
    LET primary_archetype == PrimaryArchetype(archetype_fit)
        count(role) == RoleCount(deck_cards, role)
        total_cards == Len(deck_cards)
        Rec(cond, r) == IF cond THEN <<r>> ELSE <<>>
        For(archetype) == only_primary => primary_archetype = archetype
        low_synergy_cards ==
            SelectSeq(deck_cards, LAMBDA card : Cardinality(card.synergy_tags) < min_tags)
        first3 == SubSeq(low_synergy_cards, 1,
                         IF Len(low_synergy_cards) < 3 THEN Len(low_synergy_cards) ELSE 3)
    IN  Rec(For("aggro")
              /\ FLt(FromInt(count("main_attacker")), FMulInt(total_cards, F0_3)),
            Recommendation("inclusion", "Add more main attackers",
                           "Aggro decks need consistent attacking threats", "high", {}))
        \o Rec(For("aggro") /\ count("energy_acceleration") < 2,
               Recommendation("inclusion", "Include energy acceleration",
                              "Speed up setup for aggressive plays", "medium", {}))
        \o Rec(For("control") /\ count("draw_engine") < 4,
               Recommendation("inclusion", "Add more draw power",
                              "Control decks need card advantage", "high", {}))
        \o Rec(For("control") /\ count("disruptor") < 2,
               Recommendation("inclusion", "Include disruption cards",
                              "Disrupt opponent strategy and buy time", "high", {}))
        \o Rec(For("engine") /\ count("setup_pokemon") < 2,
               Recommendation("inclusion", "Add setup Pokémon",
                              "Engine decks need consistent setup", "high", {}))
        \o Rec(count("pivot") = 0,
               Recommendation("inclusion", "Consider pivot Pokémon",
                              "Improve board positioning and retreat options", "low", {}))
        \o Rec(low_synergy_cards # <<>>,
               Recommendation("exclusion", "Consider removing",
                              "These cards have limited synergy with the deck", "medium",
                              {first3[i].name : i \in DOMAIN first3}))

\* Mutant: a card with two synergy tags counts as low in synergy too.
_generate_deck_recommendations_BelowThreeTags(deck_cards, archetype_fit) ==
    RecommendationsVariant(deck_cards, archetype_fit, TRUE, 3)

\* Mutant: the rules of every archetype are applied, not only those of the
\* primary one.
_generate_deck_recommendations_EveryArchetype(deck_cards, archetype_fit) ==
    RecommendationsVariant(deck_cards, archetype_fit, FALSE, 2)

\* The exclusion record names set(low_synergy_cards[:3]); cards is that set.
_generate_deck_recommendations(deck_cards, archetype_fit) ==
    LET primary_archetype == PrimaryArchetype(archetype_fit)
        count(role) == RoleCount(deck_cards, role)
        total_cards == Len(deck_cards)
        Rec(cond, r) == IF cond THEN <<r>> ELSE <<>>
        low_synergy_cards ==
            SelectSeq(deck_cards, LAMBDA card : Cardinality(card.synergy_tags) < 2)
        first3 == SubSeq(low_synergy_cards, 1,
                         IF Len(low_synergy_cards) < 3 THEN Len(low_synergy_cards) ELSE 3)
        specific ==
            IF primary_archetype = "aggro"
            THEN Rec(FLt(FromInt(count("main_attacker")), FMulInt(total_cards, F0_3)),
                     Recommendation("inclusion", "Add more main attackers",
                                    "Aggro decks need consistent attacking threats", "high", {}))
                 \o Rec(count("energy_acceleration") < 2,
                        Recommendation("inclusion", "Include energy acceleration",
                                       "Speed up setup for aggressive plays", "medium", {}))
            ELSE IF primary_archetype = "control"
            THEN Rec(count("draw_engine") < 4,
                     Recommendation("inclusion", "Add more draw power",
                                    "Control decks need card advantage", "high", {}))
                 \o Rec(count("disruptor") < 2,
                        Recommendation("inclusion", "Include disruption cards",
                                       "Disrupt opponent strategy and buy time", "high", {}))
            ELSE IF primary_archetype = "engine"
            THEN Rec(count("setup_pokemon") < 2,
                     Recommendation("inclusion", "Add setup Pokémon",
                                    "Engine decks need consistent setup", "high", {}))
            ELSE <<>>
    IN  specific
        \o Rec(count("pivot") = 0,
               Recommendation("inclusion", "Consider pivot Pokémon",
                              "Improve board positioning and retreat options", "low", {}))
        \o Rec(low_synergy_cards # <<>>,
               Recommendation("exclusion", "Consider removing",
                              "These cards have limited synergy with the deck", "medium",
                              {first3[i].name : i \in DOMAIN first3}))

\* The SynergyAnalysis of a list of deck cards (lines 677-694).
AnalyzeDeck(self_nlp, tagger, deck_cards) ==
    LET archetype_fit == _evaluate_archetype_fit(deck_cards)
    IN  [intra_card_score |-> _calculate_intra_card_synergy(self_nlp, tagger, deck_cards),
         inter_card_synergies |-> _calculate_inter_card_synergies(deck_cards),
         archetype_fit |-> archetype_fit,
         recommendations |-> _generate_deck_recommendations(deck_cards, archetype_fit)]

detect_synergies(self_nlp, tagger, decklist, card_features) ==
    Return(AnalyzeDeck(self_nlp, tagger, DeckCards(decklist, card_features)))

(***************************************************************************)
(* Card rows and decklists                                                 *)
(***************************************************************************)
Row(card_id, name, supertype, subtype, hp, types, retreat_cost, attacks, abilities, rules) ==
    [card_id |-> card_id, name |-> name, supertype |-> supertype, subtype |-> subtype,
     hp |-> hp, types |-> types, retreat_cost |-> retreat_cost, attacks |-> attacks,
     abilities |-> abilities, rules |-> rules]

Charizard ==
    Row("base-4", <<"Charizard">>, "Pokémon", "Basic", 200, JsonColumn(<<"Fire">>), 2,
        JsonColumn(<<Obj(<<"burn">>, <<"120", "damage">>)>>), JsonColumn(<<>>), JsonColumn(<<>>))

Arcanine ==
    Row("base-23", <<"Arcanine">>, "Pokémon", "Basic", 120, JsonColumn(<<"Fire">>), 0,
        JsonColumn(<<Obj(<<"bite">>, <<"draw", "1", "damage">>)>>),
        JsonColumn(<<Obj(<<"scout">>, <<"draw", "2", "cards">>)>>), JsonColumn(<<>>))

Squirtle ==
    Row("base-63", <<"Squirtle">>, "Pokémon", "Basic", 60, TextColumn("Water"), 1,
        JsonColumn(<<Obj(<<"tackle">>, <<"1", "damage">>)>>), NullColumn, NullColumn)

Magneton ==
    Row("base-9", <<"Magneton">>, "Pokémon", "Basic", NoneInt, JsonColumn(<<"Lightning">>), 3,
        JsonColumn(<<Obj(<<"charge">>, <<"attach", "energy", "discard", "1">>)>>),
        JsonColumn(<<Obj(<<"magnet">>, <<"attach", "energy">>)>>), NullColumn)

Research ==
    Row("sv1-189", <<"Research">>, "Trainer", "Supporter", NoneInt, JsonColumn(<<>>), NoneInt,
        JsonColumn(<<>>), JsonColumn(<<>>), JsonColumn(<<(<<"Draw", "3", "cards">>)>>))

FireEnergy ==
    Row("sve-2", <<"Basic", "Fire", "Energy">>, "Energy", "Basic", NoneInt, NullColumn, NoneInt,
        NullColumn, NullColumn, NullColumn)

\* A second printing of Charizard: same name, another card_id.
CharizardReprint ==
    Row("sv3-125", <<"Charizard">>, "Pokémon", "Basic", 180, JsonColumn(<<"Fire">>), 3,
        JsonColumn(<<Obj(<<"burn">>, <<"search", "3", "energy">>)>>), JsonColumn(<<>>),
        JsonColumn(<<>>))

CardPool == <<Charizard, Arcanine, Squirtle, Magneton, Research, FireEnergy, CharizardReprint>>

\* The features extract_card_features returns for the pool, under a tagger
\* that keeps no token and under one that keeps every candidate.
PoolFeaturesSilent == extract_card_features("model", "silent", CardPool, None).value
PoolFeaturesNouns == extract_card_features("model", "nouns", CardPool, None).value

Quantities == {1, 2}
MaxDeckEntries == 3

DeckNames ==
    {<<"Charizard">>, <<"Arcanine">>, <<"Squirtle">>, <<"Magneton">>, <<"Missingno">>}

\* dicts of up to MaxDeckEntries names, in every insertion order
Decklists ==
    {d \in SeqsUpTo(DeckNames \X Quantities, MaxDeckEntries) :
        \A i, j \in DOMAIN d : i # j => d[i][1] # d[j][1]}

\* The features handed to detect_synergies with the tagger of the analyzer
\* that extracted them: none, the whole pool, the first five cards.
AnalyzerSetups ==
    {<<SubSeq(PoolFeaturesSilent, 1, 0), "raises">>,
     <<PoolFeaturesSilent, "raises">>,
     <<SubSeq(PoolFeaturesNouns, 1, 5), "nouns">>}

SynergyArgs ==
    {[decklist |-> d, card_features |-> setup[1], tagger |-> setup[2]] :
        d \in Decklists, setup \in AnalyzerSetups}

InitSynergy ==
    /\ pc = "call"
    /\ args \in SynergyArgs
    /\ ret = NoResult
    /\ store = CardPool
    /\ nlp = "model"
    /\ state = None

DetectSynergies ==
    /\ pc = "call"
    /\ "decklist" \in DOMAIN args
    /\ ret' = detect_synergies(nlp, args.tagger, args.decklist, args.card_features)
    /\ pc' = "done"
    /\ UNCHANGED <<args, store, nlp, state>>

NextSynergy == DetectSynergies

SpecSynergy == InitSynergy /\ [][NextSynergy]_vars

SynergyDone == pc = "done" /\ "decklist" \in DOMAIN args

\* The decklist without the names that no features carry.
Matched(decklist, card_features) ==
    SelectSeq(decklist, LAMBDA item : InLookup(card_features, item[1]))

\* C2: the inter_card_synergies of detect_synergies are sorted in
\* non-increasing order of score, are at most 10, and every score is
\* strictly greater than 0.3 and at most 1.0.
C2_InterSynergiesSortedBounded ==
    SynergyDone =>
        LET synergies == ret.value.inter_card_synergies
        IN  /\ Len(synergies) <= 10
            /\ \A i, j \in DOMAIN synergies : i < j => FLe(synergies[j][3], synergies[i][3])
            /\ \A i \in DOMAIN synergies :
                    FLt(F0_3, synergies[i][3]) /\ FLe(synergies[i][3], One)

\* A deck of three names with more than ten scored pairs: the list is cut
\* to ten, its first score is the capped 1.0 and its last one is lower.
C2_Witness ==
    /\ SynergyDone
    /\ Len(args.decklist) = 3
    /\ Len(ret.value.inter_card_synergies) = 10
    /\ ret.value.inter_card_synergies[1][3] = One
    /\ FLt(ret.value.inter_card_synergies[10][3], One)

\* C3: a decklist that resolves to no cards gives intra_card_score 0, no
\* inter_card_synergies, seven archetype_fit values of 0 and no
\* recommendations.
C3_EmptyDeckEmptyAnalysis ==
    (SynergyDone /\ Matched(args.decklist, args.card_features) = <<>>) =>
        /\ ret.kind = "return"
        /\ FIsZero(ret.value.intra_card_score)
        /\ ret.value.inter_card_synergies = <<>>
        /\ \A a \in ArchetypeSet : FIsZero(ret.value.archetype_fit[a])
        /\ ret.value.recommendations = <<>>

\* C4: archetype_fit has exactly the seven archetype keys and every value
\* lies in [0,1], also when one card counts several times for an archetype.
C4_ArchetypeFitInUnitInterval ==
    SynergyDone =>
        /\ DOMAIN ret.value.archetype_fit =
               {"aggro", "control", "toolbox", "engine", "midrange", "combo", "stall"}
        /\ \A a \in DOMAIN ret.value.archetype_fit :
               FLe(FZero, ret.value.archetype_fit[a]) /\ FLe(ret.value.archetype_fit[a], One)

\* Every deck card is a draw engine and a setup Pokémon: the engine count
\* is twice the deck size and the engine fit is 1.
C4_Witness ==
    /\ SynergyDone
    /\ LET deck_cards == DeckCards(args.decklist, args.card_features)
       IN  /\ Len(deck_cards) >= 2
           /\ RoleCount(deck_cards, "draw_engine") + RoleCount(deck_cards, "setup_pokemon")
                 = 2 * Len(deck_cards)
    /\ ret.value.archetype_fit["engine"] = One

\* C5: detect_synergies raises nothing for names without features, and its
\* result is the one of the decklist with those names removed.
C5_UnmatchedNamesSkipped ==
    SynergyDone =>
        /\ ret.kind = "return"
        /\ ret = detect_synergies(nlp, args.tagger,
                                   Matched(args.decklist, args.card_features), args.card_features)

\* An unmatched name comes first in the decklist, matched ones follow, and
\* the analysis has scored pairs.
C5_Witness ==
    /\ SynergyDone
    /\ Len(args.decklist) = 3
    /\ ~InLookup(args.card_features, args.decklist[1][1])
    /\ InLookup(args.card_features, args.decklist[2][1])
    /\ InLookup(args.card_features, args.decklist[3][1])
    /\ ret.value.inter_card_synergies # <<>>

\* The pairs of physical copies of two different deck entries whose score
\* is significant: <<i, a, j, b>> is copy a of entry i with copy b of a
\* later entry j.
SignificantCopyPairs(matched, card_features) ==
    LET card(i) == card_lookup(card_features, matched[i][1])
        entries == {p \in (DOMAIN matched) \X (DOMAIN matched) :
                      /\ p[1] < p[2]
                      /\ FLt(F0_3, _calculate_pair_synergy(card(p[1]), card(p[2])))}
    IN  UNION {{<<p[1], a, p[2], b>> : a \in 1..matched[p[1]][2], b \in 1..matched[p[2]][2]} :
                 p \in entries}

\* C18: no entry of inter_card_synergies pairs a card with a copy of itself,
\* and every pair of copies of two different cards is a candidate exactly
\* once: two cards with q1 and q2 copies give q1*q2 candidates, of which the
\* list keeps those above 0.3, ten at most.
C18_PairsOverPhysicalCopies ==
    SynergyDone =>
        LET matched == Matched(args.decklist, args.card_features)
            kept == Cardinality(SignificantCopyPairs(matched, args.card_features))
            inter == ret.value.inter_card_synergies
        IN  /\ \A k \in DOMAIN inter : inter[k][1] # inter[k][2]
            /\ Len(inter) = IF kept < 10 THEN kept ELSE 10

\* Two cards with two copies each: four entries, all of the two names, none
\* of a card with its own copy.
C18_Witness ==
    /\ SynergyDone
    /\ Len(args.decklist) = 2
    /\ args.decklist[1][2] = 2
    /\ args.decklist[2][2] = 2
    /\ Len(ret.value.inter_card_synergies) = 4
    /\ \A k \in 1..4 : /\ ret.value.inter_card_synergies[k][1] = args.decklist[1][1]
                       /\ ret.value.inter_card_synergies[k][2] = args.decklist[2][1]

(***************************************************************************)
(* _calculate_pair_synergy on its own                                      *)
(***************************************************************************)
RoleDicts ==
    {<<>>,
     <<(<<"main_attacker", One>>)>>,
     <<(<<"setup_pokemon", One>>)>>,
     <<(<<"wall", One>>)>>,
     <<(<<"pivot", Score6>>), (<<"draw_supporter", Score6>>)>>}

WithRoles(card, roles) == [card EXCEPT !.roles = roles]

PairCards == {PoolFeaturesNouns[i] : i \in DOMAIN PoolFeaturesNouns}

PairArgs == [card1 : PairCards, card2 : PairCards, roles1 : RoleDicts, roles2 : RoleDicts]

InitPair ==
    /\ pc = "call"
    /\ args \in PairArgs
    /\ ret = NoResult
    /\ store = <<>>
    /\ nlp = "model"
    /\ state = None

CalculatePairSynergy ==
    /\ pc = "call"
    /\ "card1" \in DOMAIN args
    /\ ret' = Return(_calculate_pair_synergy(WithRoles(args.card1, args.roles1),
                                              WithRoles(args.card2, args.roles2)))
    /\ pc' = "done"
    /\ UNCHANGED <<args, store, nlp, state>>

NextPair == CalculatePairSynergy

SpecPair == InitPair /\ [][NextPair]_vars

\* The two cards of the call have the roles {main_attacker} and {setup_pokemon}.
AttackerAndSetup ==
    /\ pc = "done"
    /\ "card1" \in DOMAIN args
    /\ \/ Keys(args.roles1) = {"main_attacker"} /\ Keys(args.roles2) = {"setup_pokemon"}
       \/ Keys(args.roles1) = {"setup_pokemon"} /\ Keys(args.roles2) = {"main_attacker"}

\* Two role dicts without any of the complementary role pairs.
LacksRolePair(roles1, roles2) ==
    \A p \in {<<"main_attacker", "setup_pokemon">>, <<"main_attacker", "energy_acceleration">>,
               <<"draw_engine", "main_attacker">>, <<"search_item", "main_attacker">>,
               <<"wall", "pivot">>} :
        /\ ~(p[1] \in Keys(roles1) /\ p[2] \in Keys(roles2))
        /\ ~(p[2] \in Keys(roles1) /\ p[1] \in Keys(roles2))

\* The score of the same two cards under other roles.
OtherScore(roles1, roles2) ==
    _calculate_pair_synergy(WithRoles(args.card1, roles1), WithRoles(args.card2, roles2))

\* C6 as stated: the score of a {main_attacker} and {setup_pokemon} pair is
\* at least 0.4 higher than the score of the same pair under roles without
\* a complementary role pair.
C6_BonusAtLeastFourTenths ==
    AttackerAndSetup =>
        \A roles1, roles2 \in RoleDicts :
            LacksRolePair(roles1, roles2) =>
                FLe(FAdd(OtherScore(roles1, roles2), F0_4), ret.value)

\* C6 amended: the score is, within 1e-9, at least the smaller of 1.0 and
\* the other pair's score plus 0.4.
C6_BonusUpToCap ==
    AttackerAndSetup =>
        \A roles1, roles2 \in RoleDicts :
            LacksRolePair(roles1, roles2) =>
                FLe(FMin(One, FAdd(OtherScore(roles1, roles2), F0_4)),
                    FAdd(ret.value, Tolerance))

\* A setup Pokémon first and a main attacker second, and a pair that scores
\* 0.3 or less without the bonus: the bonus is the whole 0.4.
C6_Witness ==
    /\ AttackerAndSetup
    /\ Keys(args.roles1) = {"setup_pokemon"}
    /\ FLe(OtherScore(<<>>, <<>>), F0_3)
    /\ FLt(ret.value, One)
    /\ FLe(F0_4, ret.value)

(***************************************************************************)
(* extract_card_features over a card store                                 *)
(***************************************************************************)
\* A row whose supertype column is NULL.
NullSupertypeRow ==
    Row("bad-1", <<"Unown">>, None, "Basic", 60, JsonColumn(<<"Psychic">>), 1,
        JsonColumn(<<Obj(<<"hidden">>, <<"2", "damage">>)>>), NullColumn, NullColumn)

\* A row whose attacks column decodes to a list of numbers: '[1, 2]'.
NumberAttacksRow ==
    Row("bad-2", <<"Porygon">>, "Pokémon", "Basic", 60, JsonColumn(<<"Colorless">>), 1,
        JsonColumn(<<[kind |-> "number"], [kind |-> "number"]>>), NullColumn, NullColumn)

\* A row whose types column starts with '[' and does not decode: '[Fire,Water'.
BadTypesRow ==
    Row("odd-1", <<"Volcanion">>, "Pokémon", "Basic", 120,
        BadJsonColumn("[Fire,Water", <<"[Fire", "Water">>), 2,
        BadJsonColumn("[", <<"[">>), NullColumn, TextColumn(<<"heal", "3", "damage">>))

StoreRows == {Charizard, Research, FireEnergy, NullSupertypeRow, NumberAttacksRow, BadTypesRow}

MaxRows == 3

\* card_id is the primary key of the cards table.
Stores ==
    {rows \in SeqsUpTo(StoreRows, MaxRows) :
        \A i, j \in DOMAIN rows : i # j => rows[i].card_id # rows[j].card_id}

CardIds == {None, "", "base-4", "sv1-189", "bad-1", "bad-2", "absent-1"}

InitStore ==
    /\ pc = "call"
    /\ store \in Stores
    /\ args \in [card_id : CardIds, tagger : {"raises", "nouns"}]
    /\ ret = NoResult
    /\ nlp = "model"
    /\ state = None

ExtractCardFeatures ==
    /\ pc = "call"
    /\ "card_id" \in DOMAIN args
    /\ ret' = extract_card_features(nlp, args.tagger, store, args.card_id)
    /\ pc' = "done"
    /\ UNCHANGED <<args, store, nlp, state>>

NextStore == ExtractCardFeatures

SpecStore == InitStore /\ [][NextStore]_vars

StoreDone == pc = "done" /\ "card_id" \in DOMAIN args

\* C8: a card_id that no row of the store has makes extract_card_features
\* fail with NotFound; it does not return an empty list.
C8_AbsentIdRaisesNotFound ==
    (/\ StoreDone
     /\ args.card_id \notin {None, ""}
     /\ \A i \in DOMAIN store : store[i].card_id # args.card_id)
        => ret = Raise("NotFound")

\* The rows that _extract_single_card_features processes without an exception.
SoundRows(self_nlp, tagger, rows) ==
    SelectSeq(rows, LAMBDA row :
                _extract_single_card_features(self_nlp, tagger, row).kind = "return")

\* C9: extract_card_features over all cards returns, whatever row fails, the
\* features of every row that does not fail.
C9_BadRowDoesNotFailBatch ==
    (StoreDone /\ args.card_id = None) =>
        /\ ret.kind = "return"
        /\ \A i \in DOMAIN SoundRows(nlp, args.tagger, store) :
               \E k \in DOMAIN ret.value :
                   ret.value[k] =
                       _extract_single_card_features(nlp, args.tagger,
                           SoundRows(nlp, args.tagger, store)[i]).value

(***************************************************************************)
(* _analyze_pros_cons over card records                                    *)
(***************************************************************************)
\* The records hold the HP, retreat cost and damage thresholds and their
\* neighbours.
InitProsCons ==
    /\ pc = "call"
    /\ args \in [record : [supertype : {"Pokémon", "Trainer", "Energy", None},
                           hp : {NoneInt, 70, 179, 180, 249, 250},
                           retreat_cost : {NoneInt, 0, 2, 3, 4}],
                 keywords : SUBSET {"draw", "search", "protection"},
                 effects : {MkEffects(damage, draw, discard) :
                               damage \in {NoneInt, 60, 120, 200},
                               draw \in {NoneInt, 3},
                               discard \in {NoneInt, 1}}]
    /\ ret = NoResult
    /\ store = <<>>
    /\ nlp = "model"
    /\ state = None

AnalyzeProsCons ==
    /\ pc = "call"
    /\ "record" \in DOMAIN args
    /\ ret' = Return(_analyze_pros_cons(args.record, args.keywords, args.effects))
    /\ pc' = "done"
    /\ UNCHANGED <<args, store, nlp, state>>

NextProsCons == AnalyzeProsCons

SpecProsCons == InitProsCons /\ [][NextProsCons]_vars

ProsConsDone == pc = "done" /\ "record" \in DOMAIN args

\* C12: a Pokémon with hp >= 250 has 'Very high HP' as its first pro, one
\* with 180 <= hp < 250 has 'Good HP' as its first pro, and no Pokémon has
\* an HP pro together with the low-HP con.
C12_HighHpProFirst ==
    ProsConsDone /\ args.record.supertype = "Pokémon" =>
        LET hp == OrZero(args.record.hp)
            pros == ret.value[1]
            cons == ret.value[2]
        IN  /\ hp >= 250 => pros # <<>> /\ pros[1] = "Very high HP for survivability"
            /\ hp >= 180 /\ hp < 250 => pros # <<>> /\ pros[1] = "Good HP for tanking hits"
            /\ ~(/\ \E i \in DOMAIN pros :
                        pros[i] \in {"Very high HP for survivability", "Good HP for tanking hits"}
                 /\ \E i \in DOMAIN cons : cons[i] = "Low HP, vulnerable to knockouts")

\* A Pokémon of exactly 250 HP and free retreat has been analysed.
C12_Witness ==
    /\ ProsConsDone
    /\ args.record = [supertype |-> "Pokémon", hp |-> 250, retreat_cost |-> 0]
    /\ Len(ret.value[1]) >= 2
    /\ ret.value[1][1] = "Very high HP for survivability"

\* C13 as stated: every record with retreat_cost >= 3 has the con about its
\* retreat cost.
C13_HighRetreatCon ==
    ProsConsDone /\ OrZero(args.record.retreat_cost) >= 3 =>
        \E i \in DOMAIN ret.value[2] : ret.value[2][i] = "High retreat cost limits mobility"

\* C13 amended: every Pokémon record with retreat_cost >= 3 has the con
\* about its retreat cost.
C13_HighRetreatConOfPokemon ==
    ProsConsDone /\ args.record.supertype = "Pokémon" /\ OrZero(args.record.retreat_cost) >= 3 =>
        \E i \in DOMAIN ret.value[2] : ret.value[2][i] = "High retreat cost limits mobility"

\* A Pokémon of retreat cost exactly 3 has been analysed.
C13_Witness ==
    /\ ProsConsDone
    /\ args.record.supertype = "Pokémon"
    /\ args.record.retreat_cost = 3
    /\ \E i \in DOMAIN ret.value[2] : ret.value[2][i] = "High retreat cost limits mobility"

(***************************************************************************)
(* Two runs of extract_card_features over one store.  The three list fields *)
(* of a CardFeatures are made by list(set(...)): the order of the list is   *)
(* the iteration order of a set of strings, which follows the hashes of the *)
(* strings, and the interpreter salts them with a seed it draws when it     *)
(* starts.  args.hashseed is the seed of the running interpreter.           *)
(***************************************************************************)
\* list(S) for a set S of strings under a hash seed: the order is a function
\* of the set and of the seed.  Two seeds that list a set in opposite orders
\* stand for the seeds of the interpreter.
RECURSIVE ListOfSet(_, _)
ListOfSet(S, hashseed) ==
    IF S = {} THEN <<>>
    ELSE LET x == CHOOSE x \in S : TRUE
         IN  IF hashseed = 0 THEN <<x>> \o ListOfSet(S \ {x}, hashseed)
             ELSE ListOfSet(S \ {x}, hashseed) \o <<x>>

\* What extract_card_features hands back under a hash seed: the features
\* with semantic_keywords, conditions and synergy_tags as lists.
Listed(result, hashseed) ==
    IF result.kind = "raise" THEN result
    ELSE Return([i \in DOMAIN result.value |->
                    [result.value[i] EXCEPT
                        !.semantic_keywords = ListOfSet(@, hashseed),
                        !.conditions = ListOfSet(@, hashseed),
                        !.synergy_tags = ListOfSet(@, hashseed)]])

InitRuns ==
    /\ pc = "call"
    /\ store \in Stores
    /\ args \in [hashseed : {0, 1}, tagger : {"silent", "nouns"}]
    /\ ret = <<>>
    /\ nlp = "model"
    /\ state = None

\* One run of extract_card_features() over all cards; ret collects the
\* results of the runs.
ExtractFeaturesRun ==
    /\ pc \in {"call", "again"}
    /\ "hashseed" \in DOMAIN args
    /\ ret' = Append(ret, Listed(extract_card_features(nlp, args.tagger, store, None),
                                 args.hashseed))
    /\ pc' = IF pc = "call" THEN "again" ELSE "done"
    /\ UNCHANGED <<args, store, nlp, state>>

\* The program is started again for the second run: the new interpreter
\* draws its hash seed.
StartInterpreter ==
    /\ pc = "again"
    /\ "hashseed" \in DOMAIN args
    /\ \E seed \in {0, 1} : args' = [args EXCEPT !.hashseed = seed]
    /\ UNCHANGED <<pc, ret, store, nlp, state>>

NextRuns == ExtractFeaturesRun \/ StartInterpreter

SpecRuns == InitRuns /\ [][NextRuns]_vars

\* C14: two runs of extract_card_features over the same store give the same
\* CardFeatures for every card, the order of the elements of
\* semantic_keywords, conditions and synergy_tags included.
C14_RunsGiveIdenticalFeatures ==
    pc = "done" /\ "hashseed" \in DOMAIN args => ret[1] = ret[2]

(***************************************************************************)
(* The simulated game (engine/game_state.py, tests/test_simulation.py).    *)
(* A card is known by its kind: a Basic Pokémon, another Pokémon, or a     *)
(* Trainer or Energy card.  A pile of cards whose order the code reads is  *)
(* face down and shuffled: deck and prize are kept as numbers of cards,    *)
(* unseen holds the kinds of the cards of both, and the kind of a card     *)
(* taken from the top is any kind unseen has.  hand is the number of cards *)
(* of each kind in it; bench and discard are numbers of cards.             *)
(***************************************************************************)
Kinds == {"basic", "stage1", "other"}

\* make_dummy_deck(): 8 Basic Pokémon, 8 Stage 1 Pokémon, 12 Trainers and
\* 12 Energy cards
DummyDeck == [basic |-> 8, stage1 |-> 8, other |-> 24]

HandSize == 7
PrizeCount == 6
BenchSize == 5
max_turns == 100

\* The hands that the shuffle of PlayerZone.__init__ can deal from a decklist.
Deals(decklist) ==
    {dealt \in [Kinds -> 0..HandSize] :
        /\ dealt.basic + dealt.stage1 + dealt.other = HandSize
        /\ \A k \in Kinds : dealt[k] <= decklist[k]}

\* PlayerZone.__init__ and reset_zones for the hand dealt: the first Basic
\* Pokémon of the hand becomes active, up to five more go to the bench.
reset_zones(decklist, dealt) ==
    LET nactive == IF dealt.basic >= 1 THEN 1 ELSE 0
        nbench == IF dealt.basic - nactive >= BenchSize THEN BenchSize
                  ELSE dealt.basic - nactive
    IN  [deck |-> decklist.basic + decklist.stage1 + decklist.other - HandSize - PrizeCount,
         unseen |-> [k \in Kinds |-> decklist[k] - dealt[k]],
         hand |-> [dealt EXCEPT !.basic = @ - nactive - nbench],
         bench |-> nbench,
         active |-> IF nactive = 1 THEN "basic" ELSE None,
         discard |-> 0,
         prize |-> PrizeCount]

\* Mutant of can_bench: a bench of five still has room.
can_bench_UpToFive(zone) == zone.bench <= BenchSize

can_bench(zone) == zone.bench < BenchSize

move_hand_to_bench(zone, kind) ==
    [zone EXCEPT !.hand[kind] = @ - 1, !.bench = @ + 1]

discard_from_active(zone) ==
    IF zone.active # None THEN [zone EXCEPT !.discard = @ + 1, !.active = None]
    ELSE zone

\* The kinds the top card of the prize pile can have.
PrizeKinds(zone) == {k \in Kinds : zone.unseen[k] >= 1}

\* take_prize when the top prize card is of the kind.
take_prize(zone, kind) ==
    IF zone.prize > 0
    THEN [zone EXCEPT !.prize = @ - 1, !.hand[kind] = @ + 1, !.unseen[kind] = @ - 1]
    ELSE zone

lose(zone) == zone.deck = 0 \/ (zone.active = None /\ zone.bench = 0)

\* Mutant of check_win_conditions: the winner is named as state.turn names
\* the movers.
check_win_conditions_TurnNames(game) ==
    IF lose(game.player) THEN [game EXCEPT !.game_over = TRUE, !.winner = "ai"]
    ELSE IF lose(game.ai) THEN [game EXCEPT !.game_over = TRUE, !.winner = "player"]
    ELSE IF game.player.prize = 0 THEN [game EXCEPT !.game_over = TRUE, !.winner = "player"]
    ELSE IF game.ai.prize = 0 THEN [game EXCEPT !.game_over = TRUE, !.winner = "ai"]
    ELSE game

\* Mutant of check_win_conditions: the game is over only while a condition
\* holds.
check_win_conditions_WhileItHolds(game) ==
    IF lose(game.player) THEN [game EXCEPT !.game_over = TRUE, !.winner = "AI"]
    ELSE IF lose(game.ai) THEN [game EXCEPT !.game_over = TRUE, !.winner = "Player"]
    ELSE IF game.player.prize = 0 THEN [game EXCEPT !.game_over = TRUE, !.winner = "Player"]
    ELSE IF game.ai.prize = 0 THEN [game EXCEPT !.game_over = TRUE, !.winner = "AI"]
    ELSE [game EXCEPT !.game_over = FALSE, !.winner = None]

\* The GameState after check_win_conditions; the call returns a message
\* exactly when it ends the game.
check_win_conditions(game) ==
    IF lose(game.player) THEN [game EXCEPT !.game_over = TRUE, !.winner = "AI"]
    ELSE IF lose(game.ai) THEN [game EXCEPT !.game_over = TRUE, !.winner = "Player"]
    ELSE IF game.player.prize = 0 THEN [game EXCEPT !.game_over = TRUE, !.winner = "Player"]
    ELSE IF game.ai.prize = 0 THEN [game EXCEPT !.game_over = TRUE, !.winner = "AI"]
    ELSE game

\* GameState(player_deck, ai_deck) and the locals of full_game_simulation
\* before the loop.
InitGame ==
    /\ pc = "move"
    /\ args = [turn |-> 0]
    /\ ret = NoResult
    /\ store = <<>>
    /\ nlp = None
    /\ \E player_dealt \in Deals(DummyDeck), ai_dealt \in Deals(DummyDeck) :
          state = [player |-> reset_zones(DummyDeck, player_dealt),
                   ai |-> reset_zones(DummyDeck, ai_dealt),
                   turn |-> "player",
                   game_over |-> FALSE,
                   winner |-> None]

\* The player's move: the first Basic Pokémon of the hand goes to the bench
\* when the bench has room, then the attack discards the AI's active
\* Pokémon and takes a prize.
PlayerMove ==
    /\ pc = "move"
    /\ state.turn = "player"
    /\ LET current == IF state.player.hand.basic > 0 /\ can_bench(state.player)
                      THEN move_hand_to_bench(state.player, "basic")
                      ELSE state.player
       IN  \E kind \in PrizeKinds(current) :
              state' = [state EXCEPT !.ai = discard_from_active(@),
                                     !.player = take_prize(current, kind)]
    /\ pc' = "check"
    /\ UNCHANGED <<args, ret, store, nlp>>

\* AIOpponent.choose_move: the first Pokémon of the hand, of whatever stage,
\* goes to the bench when the bench has room.  first is its kind, None when
\* the hand has no Pokémon or the bench is full.
choose_move(zone, first) ==
    IF first = None THEN zone ELSE move_hand_to_bench(zone, first)

FirstPokemon(zone) ==
    IF can_bench(zone) /\ zone.hand.basic + zone.hand.stage1 > 0
    THEN {k \in {"basic", "stage1"} : zone.hand[k] > 0}
    ELSE {None}

\* The AI's move and attack.
AIMove ==
    /\ pc = "move"
    /\ state.turn = "ai"
    /\ \E first \in FirstPokemon(state.ai) :
          LET current == choose_move(state.ai, first)
          IN  \E kind \in PrizeKinds(current) :
                 state' = [state EXCEPT !.player = discard_from_active(@),
                                        !.ai = take_prize(current, kind)]
    /\ pc' = "check"
    /\ UNCHANGED <<args, ret, store, nlp>>

\* result = state.check_win_conditions(); if result: break
CheckWinConditions ==
    /\ pc = "check"
    /\ state' = check_win_conditions(state)
    /\ pc' = IF state'.game_over THEN "end" ELSE "switch"
    /\ UNCHANGED <<args, ret, store, nlp>>

\* state.switch_turn(); turn += 1; then the test of the while loop
SwitchTurn ==
    /\ pc = "switch"
    /\ state' = [state EXCEPT !.turn = IF @ = "player" THEN "ai" ELSE "player"]
    /\ args' = [args EXCEPT !.turn = @ + 1]
    /\ pc' = IF ~state.game_over /\ args.turn + 1 < max_turns THEN "move" ELSE "end"
    /\ UNCHANGED <<ret, store, nlp>>

NextGame == PlayerMove \/ AIMove \/ CheckWinConditions \/ SwitchTurn

SpecGame == InitGame /\ [][NextGame]_vars

\* The loop of the simulation runs on while it has a step to take.
SpecGameLive == SpecGame /\ WF_vars(NextGame)

\* C15: from every deal of two 40-card dummy decks the simulated game
\* reaches game_over with winner Player or AI in fewer than 100 turns.
C15_GameEnds ==
    <>(/\ pc = "end"
       /\ state.game_over
       /\ state.winner \in {"Player", "AI"}
       /\ args.turn < max_turns)

\* The player has taken the last of the six prizes, on the player's sixth
\* move.
C15_Witness ==
    /\ pc = "end"
    /\ state.game_over
    /\ state.winner = "Player"
    /\ state.player.prize = 0
    /\ state.ai.prize = 1
    /\ args.turn = 10

(***************************************************************************)
(* CardRecommender                                                         *)
(***************************************************************************)
F0_5 == [m |-> <<33554432, 0>>, e |-> -53]

\* A suggestion dict. out, in and reason are texts; the arguments that the
\* source formats into them are kept beside them: the card names of an
\* exclusion and the fit of the primary archetype.
Suggestion(out, in, reason, cards, confidence) ==
    [out |-> out, in |-> in, reason |-> reason, cards |-> cards, confidence |-> confidence]

\* The comprehension of line 44: the names of error_stats["dead_cards"],
\* in dict order, whose count is above 2.
dead_cards(error_stats) ==
    LET counts == Get(error_stats, "dead_cards", <<>>)
        dead == SelectSeq(counts, LAMBDA e : e[2] > 2)
    IN  [i \in DOMAIN dead |-> dead[i][1]]

\* Lines 30-50: the suggestions of the rules.
rule_suggestions(error_stats) ==
    LET dead == dead_cards(error_stats)
    IN  (IF Get(error_stats, "setup_missed", 0) > 3
         THEN <<Suggestion(<<"Basic Pokémon">>, <<"Battle VIP Pass">>,
                           <<"Improve early board setup consistency.">>, {}, FZero)>>
         ELSE <<>>)
        \o (IF Get(error_stats, "resource_starved", 0) > 2
            THEN <<Suggestion(<<"Supporter">>, <<"Professor's Research">>,
                              <<"Boost draw power for mid-game recovery.">>, {}, FZero)>>
            ELSE <<>>)
        \o [i \in DOMAIN dead |->
              Suggestion(dead[i], <<"Nest Ball">>,
                         dead[i] \o <<"was often dead in hand.">>, {}, FZero)]

\* CardAnalyzer() inside initialize_analyzer, for the outcome of the
\* constructor: the analyzer, or None when the constructor raised (OSError
\* without the spaCy model, sqlite3.Error without a readable cards table).
initialize_analyzer(analyzer, constructed) ==
    IF analyzer # None THEN analyzer
    ELSE IF constructed # "ok" THEN None
    ELSE "CardAnalyzer"

\* str.title() on the archetype names.
Title(str) ==
    CASE str = "aggro" -> "Aggro"
      [] str = "control" -> "Control"
      [] str = "toolbox" -> "Toolbox"
      [] str = "engine" -> "Engine"
      [] str = "midrange" -> "Midrange"
      [] str = "combo" -> "Combo"
      [] str = "stall" -> "Stall"

\* Lines 77-98: the analyzer's recommendations in the recommender's format,
\* then the suggestion of the primary archetype when its fit is above 0.5.
ConvertedSuggestions(analysis) ==
    LET known == SelectSeq(analysis.recommendations,
                           LAMBDA rec : rec.type \in {"inclusion", "exclusion"})
        primary_archetype == PrimaryArchetype(analysis.archetype_fit)
        fit == analysis.archetype_fit[primary_archetype]
    IN  [i \in DOMAIN known |->
            IF known[i].type = "inclusion"
            THEN Suggestion(<<"Consider adding">>, <<known[i].suggestion>>,
                            <<"[AI Analysis]", known[i].reason>>, {}, FZero)
            ELSE Suggestion(<<known[i].suggestion>>, <<"Better synergy card">>,
                            <<"[AI Analysis]", known[i].reason>>, known[i].cards, FZero)]
        \o (IF FLt(F0_5, fit)
            THEN <<Suggestion(<<"General cards">>, <<Title(primary_archetype), "cards">>,
                              <<"[AI Analysis] Deck fits", primary_archetype, "archetype">>,
                              {}, fit)>>
            ELSE <<>>)

\* The one element of a singleton: each step of the analysis is computed
\* once and bound to a name, as the assignments of the source do.
Only(S) == CHOOSE x \in S : TRUE

\* Lines 71-74 for the outcome extracted of extract_card_features: its
\* exception, or the outcome of detect_synergies on its features.
EnhancedAnalysis(self_nlp, tagger, decklist, extracted) ==
    IF extracted.kind = "raise" THEN extracted
    ELSE detect_synergies(self_nlp, tagger, decklist, extracted.value)

\* An exception is raised before the first append, and the except clause
\* returns the list as it is then.
EnhancedOrNothing(synergy_analysis) ==
    IF synergy_analysis.kind = "raise" THEN <<>>
    ELSE ConvertedSuggestions(synergy_analysis.value)

\* The mutant analyses no card when the extraction fails, instead of
\* giving up.
_get_enhanced_suggestions_KeepGoing(self_nlp, tagger, rows, decklist) ==
    Only({EnhancedOrNothing(synergy_analysis) :
            synergy_analysis \in
                {detect_synergies(self_nlp, tagger, decklist,
                                  IF extracted.kind = "raise" THEN <<>> ELSE extracted.value) :
                    extracted \in {extract_card_features(self_nlp, tagger, rows, None)}}})

_get_enhanced_suggestions(self_nlp, tagger, rows, decklist) ==
    Only({EnhancedOrNothing(synergy_analysis) :
            synergy_analysis \in
                {EnhancedAnalysis(self_nlp, tagger, decklist, extracted) :
                    extracted \in {extract_card_features(self_nlp, tagger, rows, None)}}})

\* suggest_replacements, for the analyzer that initialize_analyzer left.
suggest_replacements(analyzer, tagger, rows, decklist, error_stats) ==
    rule_suggestions(error_stats)
    \o (IF analyzer = None THEN <<>>
        ELSE _get_enhanced_suggestions("model", tagger, rows, decklist))

\* error_stats dicts around the thresholds of the rules; dead_cards is a
\* dict of counts in insertion order.
ErrorStats ==
    {[setup_missed |-> 5],
     [setup_missed |-> 3, resource_starved |-> 3],
     [setup_missed |-> 4, resource_starved |-> 2,
      dead_cards |-> <<(<<(<<"Charizard">>), 3>>), <<(<<"Research">>), 2>>,
                       <<(<<"Squirtle">>), 4>>>>],
     [resource_starved |-> 4, dead_cards |-> <<(<<(<<"Research">>), 3>>)>>],
     [dead_cards |-> <<>>]}

RecommenderDecklists ==
    {<<>>,
     <<(<<(<<"Charizard">>), 2>>), <<(<<"Research">>), 2>>>>,
     <<(<<(<<"Basic", "Fire", "Energy">>), 1>>), <<(<<"Missingno">>), 1>>>>}

\* CardRecommender.__init__ leaves analyzer None. The environment is the
\* cards table, what the constructor of the analyzer does and how the
\* tagger behaves.
InitRecommender ==
    /\ pc = "call"
    /\ store \in Stores
    /\ args \in [decklist : RecommenderDecklists, error_stats : ErrorStats,
                 constructed : {"ok", "OSError", "sqlite3.Error"},
                 tagger : {"raises", "nouns"}]
    /\ ret = NoResult
    /\ nlp = None
    /\ state = [analyzer |-> None]

SuggestReplacements ==
    /\ pc = "call"
    /\ "error_stats" \in DOMAIN args
    /\ LET analyzer == initialize_analyzer(state.analyzer, args.constructed)
       IN  /\ state' = [state EXCEPT !.analyzer = analyzer]
           /\ nlp' = IF analyzer = None THEN None ELSE "model"
           /\ ret' = Return(suggest_replacements(analyzer, args.tagger, store,
                                                 args.decklist, args.error_stats))
    /\ pc' = "done"
    /\ UNCHANGED <<args, store>>

NextRecommender == SuggestReplacements

SpecRecommender == InitRecommender /\ [][NextRecommender]_vars

RecommenderDone == pc = "done" /\ "error_stats" \in DOMAIN args

\* The enhanced analysis of the call raises: the extraction over the cards
\* table does.
EnhancedRaises == extract_card_features("model", args.tagger, store, None).kind = "raise"

\* The suggestion of a triggered rule, by the card it takes out.
RuleSuggestion(out) ==
    IF out = <<"Basic Pokémon">>
    THEN Suggestion(out, <<"Battle VIP Pass">>,
                    <<"Improve early board setup consistency.">>, {}, FZero)
    ELSE IF out = <<"Supporter">>
    THEN Suggestion(out, <<"Professor's Research">>,
                    <<"Boost draw power for mid-game recovery.">>, {}, FZero)
    ELSE Suggestion(out, <<"Nest Ball">>, out \o <<"was often dead in hand.">>, {}, FZero)

\* C16: suggest_replacements returns a list; when the analyzer could not be
\* constructed or the enhanced analysis raises, the list is the rule-based
\* suggestions alone: setup_missed > 3, then resource_starved > 2, then one
\* per dead card with count > 2 in the order of the dict.
C16_RuleBasedWhenAnalyzerFails ==
    RecommenderDone =>
        /\ ret.kind = "return"
        /\ (state.analyzer = None \/ EnhancedRaises) =>
              LET stats == args.error_stats
                  counts == IF "dead_cards" \in DOMAIN stats THEN stats.dead_cards ELSE <<>>
                  setup == "setup_missed" \in DOMAIN stats /\ stats.setup_missed > 3
                  starved == "resource_starved" \in DOMAIN stats /\ stats.resource_starved > 2
                  outs == (IF setup THEN <<(<<"Basic Pokémon">>)>> ELSE <<>>)
                          \o (IF starved THEN <<(<<"Supporter">>)>> ELSE <<>>)
                          \o SelectSeq([i \in DOMAIN counts |->
                                          IF counts[i][2] > 2 THEN counts[i][1] ELSE <<>>],
                                       LAMBDA name : name # <<>>)
              IN  ret.value = [i \in DOMAIN outs |-> RuleSuggestion(outs[i])]

\* An analyzer was constructed, the extraction raised on a bad row, and the
\* three rule-based suggestions came back: setup, then two dead cards.
C16_Witness ==
    /\ RecommenderDone
    /\ state.analyzer = "CardAnalyzer"
    /\ EnhancedRaises
    /\ args.decklist # <<>>
    /\ Len(ret.value) = 3
    /\ ret.value[1].out = <<"Basic Pokémon">>
    /\ ret.value[3].out = <<"Squirtle">>

(***************************************************************************)
(* _extract_single_card_features over cards with conditions in their text  *)
(***************************************************************************)
CoinWords == {"flip", "a", "coin", "discard", "2"}

\* A Pokémon with the text on an attack, and a Trainer with it as a rule.
CoinRows ==
    {Row("coin-1", <<"Togepi">>, "Pokémon", "Basic", 120, JsonColumn(<<"Colorless">>), 1,
         JsonColumn(<<Obj(<<"toss">>, text)>>), NullColumn, NullColumn) :
        text \in SeqsUpTo(CoinWords, MaxTextLen)}
    \cup {Row("coin-2", <<"Pokémon", "Catcher">>, "Trainer", "Item", NoneInt, NullColumn,
              NoneInt, NullColumn, NullColumn, JsonColumn(<<text>>)) :
            text \in SeqsUpTo(CoinWords, MaxTextLen)}

InitCard ==
    /\ pc = "call"
    /\ args \in [card_row : CoinRows, tagger : {"raises", "nouns"}]
    /\ ret = NoResult
    /\ store = <<>>
    /\ nlp = "model"
    /\ state = None

ExtractSingleCardFeatures ==
    /\ pc = "call"
    /\ "card_row" \in DOMAIN args
    /\ ret' = _extract_single_card_features(nlp, args.tagger, args.card_row)
    /\ pc' = "done"
    /\ UNCHANGED <<args, store, nlp, state>>

NextCard == ExtractSingleCardFeatures

SpecCard == InitCard /\ [][NextCard]_vars

CardDone == pc = "done" /\ "card_row" \in DOMAIN args

\* C17: a card whose extracted conditions hold 'flip a coin' has the cons
\* entry about reliance on coin flips.
C17_CoinFlipCon ==
    (CardDone /\ ret.kind = "return" /\ "flip a coin" \in ret.value.conditions) =>
        \E i \in DOMAIN ret.value.cons : ret.value.cons[i] = "Relies on coin flips (inconsistent)"

(***************************************************************************)
(* detect_synergies over decks of the whole pool                           *)
(***************************************************************************)
MaxDeckNames == 2

\* Names of every supertype, one copy or a playset of four.
PoolNames ==
    {<<"Charizard">>, <<"Arcanine">>, <<"Squirtle">>, <<"Magneton">>, <<"Research">>,
     <<"Basic", "Fire", "Energy">>}

PoolDecklists ==
    {d \in SeqsUpTo(PoolNames \X {1, 4}, MaxDeckNames) :
        \A i, j \in DOMAIN d : i # j => d[i][1] # d[j][1]}

\* The analyzer has extracted the features of the whole pool with a tagger
\* that keeps no token, or those of the pool without the second printing
\* with a tagger that keeps every candidate.
InitDeck ==
    /\ pc = "call"
    /\ args \in {[decklist |-> d, card_features |-> setup[1], tagger |-> setup[2]] :
                    d \in PoolDecklists,
                    setup \in {<<PoolFeaturesSilent, "silent">>,
                                <<SubSeq(PoolFeaturesNouns, 1, 6), "nouns">>}}
    /\ ret = NoResult
    /\ store = CardPool
    /\ nlp = "model"
    /\ state = None

SpecDeck == InitDeck /\ [][NextSynergy]_vars

\* The deck cards of the call and the indices of its recommendations with a
\* given suggestion.
DeckOfCall == DeckCards(args.decklist, args.card_features)
Suggested(suggestion) ==
    {i \in DOMAIN ret.value.recommendations :
        ret.value.recommendations[i].suggestion = suggestion}

\* C21: the recommendations hold one low-priority pivot inclusion exactly
\* when no deck card has the pivot role, and one medium-priority exclusion,
\* naming at most 3 distinct low-synergy cards, exactly when a deck card has
\* fewer than 2 synergy tags; both come after the archetype-specific
\* recommendations, the pivot one before the exclusion.
C21_PivotAndExclusionRules ==
    SynergyDone =>
        LET recs == ret.value.recommendations
            pivots == {i \in DOMAIN recs :
                         recs[i].type = "inclusion" /\ recs[i].suggestion = "Consider pivot Pokémon"}
            exclusions == {i \in DOMAIN recs : recs[i].type = "exclusion"}
            low == {i \in DOMAIN DeckOfCall : Cardinality(DeckOfCall[i].synergy_tags) < 2}
            no_pivot == \A i \in DOMAIN DeckOfCall : "pivot" \notin Keys(DeckOfCall[i].roles)
        IN  /\ Cardinality(pivots) = IF no_pivot THEN 1 ELSE 0
            /\ Cardinality(exclusions) = IF low # {} THEN 1 ELSE 0
            /\ \A i \in pivots : recs[i].priority = "low"
            /\ \A i \in exclusions :
                  /\ recs[i].priority = "medium"
                  /\ recs[i].cards # {}
                  /\ Cardinality(recs[i].cards) <= 3
                  /\ recs[i].cards \subseteq {DeckOfCall[k].name : k \in low}
            /\ \A i \in pivots \cup exclusions :
                  \A j \in DOMAIN recs \ (pivots \cup exclusions) : j < i
            /\ \A i \in pivots : \A j \in exclusions : i < j

\* A deck without a pivot and with low-synergy copies: two archetype
\* recommendations, then the pivot inclusion, then the exclusion.
C21_Witness ==
    /\ SynergyDone
    /\ Len(ret.value.recommendations) = 4
    /\ ret.value.recommendations[3].suggestion = "Consider pivot Pokémon"
    /\ ret.value.recommendations[4].type = "exclusion"
    /\ Cardinality({i \in DOMAIN DeckOfCall : Cardinality(DeckOfCall[i].synergy_tags) < 2}) = 4

\* The archetype of the highest fit, the first listed one among equals.
HighestFit(archetype_fit) ==
    CHOOSE a \in ArchetypeSet :
        \E i \in DOMAIN ARCHETYPES :
            /\ ARCHETYPES[i] = a
            /\ \A j \in DOMAIN ARCHETYPES :
                  IF j < i THEN FLt(archetype_fit[ARCHETYPES[j]], archetype_fit[a])
                  ELSE FLe(archetype_fit[ARCHETYPES[j]], archetype_fit[a])

\* C22: archetype recommendations are those of the primary archetype only;
\* 'add main attackers' appears iff the primary is aggro and the main
\* attackers are fewer than 30% of the deck, 'add draw power' iff the
\* primary is control and fewer than 4 deck cards are draw engines.
C22_PrimaryArchetypeRules ==
    SynergyDone =>
        LET primary == HighestFit(ret.value.archetype_fit)
            recs == ret.value.recommendations
        IN  /\ Suggested("Add more main attackers") # {}
                <=> /\ primary = "aggro"
                    /\ 10 * RoleCount(DeckOfCall, "main_attacker") < 3 * Len(DeckOfCall)
            /\ Suggested("Add more draw power") # {}
                <=> (primary = "control" /\ RoleCount(DeckOfCall, "draw_engine") < 4)
            /\ \A i \in Suggested("Add more main attackers") \cup Suggested("Add more draw power") :
                  recs[i].type = "inclusion" /\ recs[i].priority = "high"
            /\ Suggested("Include energy acceleration") # {} => primary = "aggro"
            /\ Suggested("Include disruption cards") # {} => primary = "control"
            /\ Suggested("Add setup Pokémon") # {} => primary = "engine"

\* A control deck with four draw engines: the disruption rule fires, the
\* draw rule does not.
C22_Witness ==
    /\ SynergyDone
    /\ HighestFit(ret.value.archetype_fit) = "control"
    /\ RoleCount(DeckOfCall, "draw_engine") = 4
    /\ Suggested("Add more draw power") = {}
    /\ Suggested("Include disruption cards") # {}

(***************************************************************************)
(* The types column: written by the importer, read by _parse_types         *)
(***************************************************************************)
\* A string is the sequence of its lexical pieces: brackets, commas, bare
\* words and quoted words. The empty sequence is the empty string.
MaxTypesLen == 5

TypeWords == {"Fire", "Water"}
TypePieces == {"[", "]", ",", "Fire", "\"Water\""}

\* The word inside a quoted word.
Unquoted(piece) == CASE piece = "\"Water\"" -> "Water" [] piece = "\"Fire\"" -> "Fire"
IsQuoted(piece) == piece \in {"\"Water\"", "\"Fire\""}

\* ",".join(card_types) of normalize_card_for_db
RECURSIVE JoinTypes(_)
JoinTypes(card_types) ==
    IF card_types = <<>> THEN <<>>
    ELSE IF Len(card_types) = 1 THEN <<card_types[1]>>
    ELSE <<card_types[1], ",">> \o JoinTypes(Tail(card_types))

\* json.loads of a string that starts with '[': it decodes a list of
\* quoted words separated by commas and raises JSONDecodeError otherwise.
JsonDecodes(str) ==
    /\ Len(str) >= 2
    /\ str[1] = "["
    /\ str[Len(str)] = "]"
    /\ (Len(str) = 2 \/ Len(str) % 2 = 1)
    /\ \A i \in 2..(Len(str) - 1) : IF i % 2 = 0 THEN IsQuoted(str[i]) ELSE str[i] = ","

JsonList(str) == [k \in 1..((Len(str) - 1) \div 2) |-> <<Unquoted(str[2 * k])>>]

\* str.split(','): the strings between the commas, the empty ones too.
RECURSIVE SplitAtCommas(_)
SplitAtCommas(str) ==
    IF \A i \in DOMAIN str : str[i] # "," THEN <<str>>
    ELSE LET c == CHOOSE i \in DOMAIN str :
                      str[i] = "," /\ \A j \in 1..(i - 1) : str[j] # ","
         IN  <<SubSeq(str, 1, c - 1)>> \o SplitAtCommas(SubSeq(str, c + 1, Len(str)))

\* _parse_types on the characters of the stored string: each element of the
\* result is a string.
ParsedTypes(types_str) ==
    IF types_str = <<>> THEN <<>>
    ELSE IF types_str[1] = "["
    THEN IF JsonDecodes(types_str) THEN JsonList(types_str) ELSE SplitAtCommas(types_str)
    ELSE <<types_str>>

\* A card of the API with its list of types goes through the importer, or
\* the column already holds a string (None is read like the empty string).
InitTypes ==
    /\ \/ /\ pc = "import"
          /\ args \in [card_types : SeqsUpTo(TypeWords, 3)]
          /\ store = <<>>
       \/ /\ pc = "stored"
          /\ args = [card_types |-> <<>>]
          /\ store \in {<<str>> : str \in SeqsUpTo(TypePieces, MaxTypesLen)}
    /\ ret = NoResult
    /\ nlp = "model"
    /\ state = None

\* normalize_card_for_db writes the types column of the row.
NormalizeCardForDb ==
    /\ pc = "import"
    /\ store' = <<JoinTypes(args.card_types)>>
    /\ pc' = "imported"
    /\ UNCHANGED <<args, ret, nlp, state>>

ParseTypes ==
    /\ pc \in {"imported", "stored"}
    /\ ret' = Return(ParsedTypes(store[1]))
    /\ pc' = IF pc = "imported" THEN "parsed" ELSE "done"
    /\ UNCHANGED <<args, store, nlp, state>>

NextTypes == NormalizeCardForDb \/ ParseTypes

SpecTypes == InitTypes /\ [][NextTypes]_vars

\* C23: the types the importer wrote comma-separated are parsed into one
\* element per type, in order; a bare scalar gives a one-element sequence
\* and an empty field the empty sequence.
C23_CommaSeparatedTypesParsed ==
    /\ pc = "parsed" => ret.value = [i \in DOMAIN args.card_types |-> <<args.card_types[i]>>]
    /\ (pc = "done" /\ Len(store[1]) = 1 /\ store[1][1] \in TypeWords) => ret.value = <<store[1]>>
    /\ (pc = "done" /\ store[1] = <<>>) => ret.value = <<>>

\* The keywords of the ability texts and of the attack texts of a card, as
\* the analyzer of the call finds them.
AbilityKeywords(card) == TextKeywords(nlp, args.tagger, card.abilities)
AttackKeywords(card) == TextKeywords(nlp, args.tagger, card.attacks)

\* The deck entries, by index, whose card has abilities and attacks.
Qualifying(matched) ==
    {i \in DOMAIN matched :
        LET card == card_lookup(args.card_features, matched[i][1])
        IN  card.abilities # <<>> /\ card.attacks # <<>>}

\* The sum over a set of deck entries of copies * overlap * scale / larger,
\* where scale is a common multiple of the denominators.
RECURSIVE ScaledOverlaps(_, _, _)
ScaledOverlaps(matched, entries, scale) ==
    IF entries = {} THEN 0
    ELSE LET i == CHOOSE k \in entries : TRUE
             card == card_lookup(args.card_features, matched[i][1])
             larger == IntMax(IntMax(Cardinality(AbilityKeywords(card)),
                                     Cardinality(AttackKeywords(card))), 1)
             overlap == Cardinality(AbilityKeywords(card) \cap AttackKeywords(card))
         IN  matched[i][2] * overlap * (scale \div larger)
             + ScaledOverlaps(matched, entries \ {i}, scale)

\* 5040 is a multiple of every keyword count up to 10.
OverlapScale == 16 * 9 * 5 * 7

RECURSIVE Copies(_, _)
Copies(matched, entries) ==
    IF entries = {} THEN 0
    ELSE LET i == CHOOSE k \in entries : TRUE
         IN  matched[i][2] + Copies(matched, entries \ {i})

\* C24: intra_card_score is the average, over the copies with abilities and
\* attacks, of overlap / max(ability keywords, attack keywords, 1), up to
\* the rounding of the sum; it lies in [0,1] and is 0 when no copy
\* qualifies.
C24_IntraScoreIsAverage ==
    SynergyDone =>
        LET matched == Matched(args.decklist, args.card_features)
            entries == Qualifying(matched)
            score == ret.value.intra_card_score
        IN  /\ FLe(FZero, score) /\ FLe(score, One)
            /\ entries = {} => FIsZero(score)
            /\ entries # {} =>
                  FLe(FAbsDiff(score,
                               FDiv(FromInt(ScaledOverlaps(matched, entries, OverlapScale)),
                                    FromInt(OverlapScale * Copies(matched, entries)))),
                      Tolerance)

\* Four copies of one qualifying card and one copy of another with a
\* different ratio, and a score between the two.
C24_Witness ==
    /\ SynergyDone
    /\ Len(args.decklist) = 2
    /\ Qualifying(Matched(args.decklist, args.card_features)) = {1, 2}
    /\ args.decklist[1][2] = 4
    /\ args.decklist[2][2] = 1
    /\ LET alone(i) == _calculate_intra_card_synergy(nlp, args.tagger,
                      DeckCards(<<args.decklist[i]>>, args.card_features))
       IN  /\ FLt(alone(2), ret.value.intra_card_score)
           /\ FLt(ret.value.intra_card_score, alone(1))


(***************************************************************************)
(* A GameState whose operations are called in any order                    *)
(* (engine/game_state.py, as gui/board.py and the AI call them).  The      *)
(* zones are kept as in the simulated game.  args.call is the call made    *)
(* last, ret what it returned or raised, state.log the length of the log.  *)
(***************************************************************************)
MaxCalls == 3

\* A 15-card decklist: seven Basic Pokémon, one Stage 1 Pokémon, seven
\* Trainer or Energy cards.  Two cards are left in the deck after the deal.
ZoneDeck == [basic |-> 7, stage1 |-> 1, other |-> 7]

DeckSize(decklist) == decklist.basic + decklist.stage1 + decklist.other

Players == {"player", "ai"}

\* GameState(player_deck, ai_deck)
InitZones ==
    /\ pc = "calls"
    /\ args = [calls |-> 0, call |-> <<"GameState">>]
    /\ ret = NoResult
    /\ store = <<>>
    /\ nlp = None
    /\ \E player_dealt \in Deals(ZoneDeck), ai_dealt \in Deals(ZoneDeck) :
          state = [player |-> reset_zones(ZoneDeck, player_dealt),
                   ai |-> reset_zones(ZoneDeck, ai_dealt),
                   turn |-> "player",
                   log |-> 0,
                   game_over |-> FALSE,
                   winner |-> None]

\* The zones that draw_card(n) can leave: each card popped from the deck is
\* of a kind that unseen has; the loop stops at an empty deck.
RECURSIVE draw_card(_, _)
draw_card(zone, n) ==
    IF n = 0 \/ zone.deck = 0 THEN {zone}
    ELSE UNION {draw_card([zone EXCEPT !.deck = @ - 1, !.hand[kind] = @ + 1,
                                       !.unseen[kind] = @ - 1], n - 1) :
                   kind \in {k \in Kinds : zone.unseen[k] >= 1}}

\* The cards that card_idx can name in move_hand_to_bench: a card of the hand,
\* by its kind, or no card when the index is out of range.
HandCards(zone) == {k \in Kinds : zone.hand[k] > 0} \cup {"out of range"}

\* The exception that move_hand_to_bench raises, None when it moves the card.
move_hand_to_bench_raises(zone, card) ==
    IF ~can_bench(zone) THEN "Exception"
    ELSE IF card = "out of range" THEN "IndexError"
    ELSE IF card = "other" THEN "Exception"
    ELSE None

\* The exception that promote_from_bench raises, None when it returns.
promote_from_bench_raises(zone, bench_idx) ==
    IF zone.bench = 0 THEN None
    ELSE IF bench_idx = "out of range" THEN "IndexError"
    ELSE None

\* promote_from_bench when it returns: an empty bench clears active;
\* otherwise the benched Pokémon, of the kind, is assigned to active.
promote_from_bench(zone, kind) ==
    IF zone.bench = 0 THEN [zone EXCEPT !.active = None]
    ELSE [zone EXCEPT !.bench = @ - 1, !.active = kind]

\* What check_win_conditions returns: a message when a condition holds.
win_message(game) ==
    IF lose(game.player) THEN "Deck out or no Pokemon. You lose!"
    ELSE IF lose(game.ai) THEN "Opponent decked out or no Pokemon. You win!"
    ELSE IF game.player.prize = 0 THEN "You took all prizes! You win!"
    ELSE IF game.ai.prize = 0 THEN "AI took all prizes. You lose!"
    ELSE None

Called(call) == [calls |-> args.calls + 1, call |-> call]

CallDrawCard ==
    /\ args.calls < MaxCalls
    /\ \E who \in Players, n \in {1, 3} :
          /\ \E zone \in draw_card(state[who], n) :
                state' = [state EXCEPT ![who] = zone]
          /\ ret' = Return(n <= state[who].deck)
          /\ args' = Called(<<"draw_card", who, n>>)
    /\ UNCHANGED <<pc, store, nlp>>

CallMoveHandToBench ==
    /\ args.calls < MaxCalls
    /\ \E who \in Players :
          \E card \in HandCards(state[who]) :
             LET exc == move_hand_to_bench_raises(state[who], card)
             IN  /\ state' = IF exc = None
                             THEN [state EXCEPT ![who] = move_hand_to_bench(@, card)]
                             ELSE state
                 /\ ret' = IF exc = None THEN Return(None) ELSE Raise(exc)
                 /\ args' = Called(<<"move_hand_to_bench", who, card>>)
    /\ UNCHANGED <<pc, store, nlp>>

CallDiscardFromActive ==
    /\ args.calls < MaxCalls
    /\ \E who \in Players :
          /\ state' = [state EXCEPT ![who] = discard_from_active(@)]
          /\ args' = Called(<<"discard_from_active", who>>)
    /\ ret' = Return(None)
    /\ UNCHANGED <<pc, store, nlp>>

\* The benched Pokémon are Basic or Stage 1 Pokémon; which one bench_idx
\* names is open, the bench being kept as a number of cards.
CallPromoteFromBench ==
    /\ args.calls < MaxCalls
    /\ \E who \in Players, bench_idx \in {"basic", "stage1", "out of range"} :
          LET exc == promote_from_bench_raises(state[who], bench_idx)
          IN  /\ state' = IF exc = None
                          THEN [state EXCEPT ![who] = promote_from_bench(@, bench_idx)]
                          ELSE state
              /\ ret' = IF exc = None THEN Return(None) ELSE Raise(exc)
              /\ args' = Called(<<"promote_from_bench", who, bench_idx>>)
    /\ UNCHANGED <<pc, store, nlp>>

CallTakePrize ==
    /\ args.calls < MaxCalls
    /\ \E who \in Players :
          /\ \E kind \in IF state[who].prize > 0 THEN PrizeKinds(state[who]) ELSE {"other"} :
                state' = [state EXCEPT ![who] = take_prize(@, kind)]
          /\ args' = Called(<<"take_prize", who>>)
    /\ ret' = Return(None)
    /\ UNCHANGED <<pc, store, nlp>>

CallSwitchTurn ==
    /\ args.calls < MaxCalls
    /\ state' = [state EXCEPT !.turn = IF @ = "player" THEN "ai" ELSE "player"]
    /\ args' = Called(<<"switch_turn">>)
    /\ ret' = Return(None)
    /\ UNCHANGED <<pc, store, nlp>>

CallLogAction ==
    /\ args.calls < MaxCalls
    /\ state' = [state EXCEPT !.log = @ + 1]
    /\ args' = Called(<<"log_action">>)
    /\ ret' = Return(None)
    /\ UNCHANGED <<pc, store, nlp>>

CallCheckWinConditions ==
    /\ args.calls < MaxCalls
    /\ state' = check_win_conditions(state)
    /\ args' = Called(<<"check_win_conditions">>)
    /\ ret' = Return(win_message(state))
    /\ UNCHANGED <<pc, store, nlp>>

NextZones ==
    \/ CallDrawCard
    \/ CallMoveHandToBench
    \/ CallDiscardFromActive
    \/ CallPromoteFromBench
    \/ CallTakePrize
    \/ CallSwitchTurn
    \/ CallLogAction
    \/ CallCheckWinConditions

SpecZones == InitZones /\ [][NextZones]_vars

\* The number of cards a PlayerZone holds over all its zones.
ZoneTotal(zone) ==
    zone.deck + zone.hand.basic + zone.hand.stage1 + zone.hand.other
    + zone.bench + (IF zone.active = None THEN 0 ELSE 1) + zone.discard + zone.prize

\* C25: after any sequence of draw_card, move_hand_to_bench,
\* discard_from_active, promote_from_bench and take_prize calls the cards of
\* a PlayerZone over deck, hand, bench, active, discard and prize are as many
\* as the decklist it was built from has.
C25_CardsConserved ==
    pc = "calls" => \A who \in Players : ZoneTotal(state[who]) = DeckSize(ZoneDeck)


\* A move_hand_to_bench call that the code refuses: the bench is full, the
\* index is out of range, or the card is not a Pokémon.
Refused(zone, card) ==
    zone.bench >= BenchSize \/ card = "out of range" \/ card = "other"

\* C26: the bench of a PlayerZone never holds more than 5 cards, and
\* move_hand_to_bench on a full bench, with an index out of range or with a
\* card that is not a Pokémon raises and leaves hand and bench as they were.
C26_BenchAtMostFive ==
    /\ [](pc = "calls" => \A who \in Players : state[who].bench <= BenchSize)
    /\ [][pc = "calls" /\ args'.call[1] = "move_hand_to_bench"
             /\ Refused(state[args'.call[2]], args'.call[3])
          => /\ ret'.kind = "raise"
             /\ state'[args'.call[2]].hand = state[args'.call[2]].hand
             /\ state'[args'.call[2]].bench = state[args'.call[2]].bench]_vars

\* A Basic Pokémon of the hand was refused by a bench of five.
C26_Witness ==
    /\ pc = "calls"
    /\ args.call[1] = "move_hand_to_bench"
    /\ args.call[3] = "basic"
    /\ ret = Raise("Exception")
    /\ state[args.call[2]].bench = BenchSize


\* C27: game_over is true exactly when winner is not None;
\* check_win_conditions returns a message exactly when it sets game_over
\* and winner, and leaves the GameState alone when it returns None; no
\* operation makes game_over false again.
C27_GameOverIffWinner ==
    /\ [](pc = "calls" => (state.game_over <=> state.winner # None))
    /\ [][pc = "calls" /\ state.game_over => state'.game_over]_vars
    /\ [][pc = "calls" /\ args'.call[1] = "check_win_conditions"
          => IF ret'.value # None
             THEN state'.game_over /\ state'.winner \in {"Player", "AI"}
             ELSE state' = state]_vars

\* The game was over, and a Pokémon went to the bench of the loser after it.
C27_Witness ==
    /\ pc = "calls"
    /\ state.game_over
    /\ state.winner = "Player"
    /\ args.call = <<"move_hand_to_bench", "ai", "stage1">>
    /\ ret = Return(None)


(***************************************************************************)
(* Cards analysed by an analyzer whose tagger adds no token: the features  *)
(* of one stored card are extracted, then a deck of that card is analysed. *)
(***************************************************************************)
MaxPlainLen == 2

PlainWords == {"attach", "energy", "search", "acceleration"}

\* A card of the supertype and subtype with the text as its rules.
PlainRow(supertype, subtype, text) ==
    Row("sv2-1", <<"Card">>, supertype, subtype, 70, JsonColumn(<<>>), 1,
        JsonColumn(<<>>), JsonColumn(<<>>), JsonColumn(<<text>>))

PlainRows ==
    {PlainRow(kind[1], kind[2], text) :
        kind \in {<<"Pokémon", "Basic">>, <<"Trainer", "Supporter">>, <<"Trainer", "Item">>,
                  <<"Energy", "Special">>},
        text \in SeqsUpTo(PlainWords, MaxPlainLen)}

InitPlain ==
    /\ pc = "extract"
    /\ args \in [tagger : {"silent", "raises"}, decklist : {<<(<<(<<"Card">>), 1>>)>>}]
    /\ ret = NoResult
    /\ store \in {<<row>> : row \in PlainRows}
    /\ nlp = "model"
    /\ state = None

\* card_features = analyzer.extract_card_features()
ExtractPlainFeatures ==
    /\ pc = "extract"
    /\ ret' = extract_card_features(nlp, args.tagger, store, None)
    /\ state' = IF ret'.kind = "return" THEN ret'.value ELSE None
    /\ pc' = IF ret'.kind = "return" THEN "detect" ELSE "done"
    /\ UNCHANGED <<args, store, nlp>>

\* analyzer.detect_synergies(decklist, card_features)
DetectPlainSynergies ==
    /\ pc = "detect"
    /\ ret' = detect_synergies(nlp, args.tagger, args.decklist, state)
    /\ pc' = "analysed"
    /\ UNCHANGED <<args, store, nlp, state>>

NextPlain == ExtractPlainFeatures \/ DetectPlainSynergies

SpecPlain == InitPlain /\ [][NextPlain]_vars

\* The roles that need a keyword no category is named after.
LexicalRoles == {"energy_acceleration", "search_supporter", "search_item", "acceleration"}

\* C28: with a tagger that adds no token the semantic keywords of a card are
\* category names, the card has none of the roles energy_acceleration,
\* search_supporter, search_item and acceleration, and the combo fit of the
\* deck is 0.
C28_CategoryKeywordsOnly ==
    /\ pc \in {"detect", "analysed"} =>
          \A i \in DOMAIN state :
             /\ state[i].semantic_keywords \subseteq DOMAIN SEMANTIC_PATTERNS
             /\ Keys(state[i].roles) \cap LexicalRoles = {}
    /\ pc = "analysed" /\ ret.kind = "return" => ret.value.archetype_fit.combo = FZero

\* A Pokémon of a one-card deck whose text names energy and attach.
C28_Witness ==
    /\ pc = "analysed"
    /\ args.tagger = "silent"
    /\ ret.kind = "return"
    /\ state[1].supertype = "Pokémon"
    /\ state[1].rules = <<(<<"attach", "energy">>)>>
    /\ "energy" \in state[1].semantic_keywords
    /\ ret.value.archetype_fit.combo = FZero


(***************************************************************************)
(* Pokémon rows with null columns                                          *)
(***************************************************************************)
NullableHp == {NoneInt, 0, 60, 120, 200}
NullableRetreat == {NoneInt, 0, 2}
AttackTexts == {<<>>, <<"1", "damage">>, <<"120", "damage">>, <<"switch">>}

NullRows ==
    {Row("null-1", <<"Ditto">>, "Pokémon", "Basic", hp, JsonColumn(<<"Colorless">>),
         retreat_cost, JsonColumn(<<Obj(<<"copy">>, text)>>), NullColumn, NullColumn) :
        hp \in NullableHp, retreat_cost \in NullableRetreat, text \in AttackTexts}

InitNull ==
    /\ pc = "call"
    /\ args \in [card_row : NullRows, tagger : {"silent", "nouns"}]
    /\ ret = NoResult
    /\ store = <<>>
    /\ nlp = "model"
    /\ state = None

SpecNull == InitNull /\ [][NextCard]_vars

\* The row with 0 in place of each null number.
Zeroed(card_row) ==
    [card_row EXCEPT !.hp = IF @ = NoneInt THEN 0 ELSE @,
                     !.retreat_cost = IF @ = NoneInt THEN 0 ELSE @]

ListedIn(list, entry) == \E i \in DOMAIN list : list[i] = entry

\* C29: a Pokémon whose hp or retreat_cost is null has the roles, pros and
\* cons of the same card with 0 there: with a null retreat_cost the pivot
\* role and the 'Free retreat' pro, with a null hp the low-HP con; and a
\* Pokémon without a damage amount has the 'Low damage output' con.
C29_NullAsZero ==
    CardDone /\ args.card_row \in NullRows /\ ret.kind = "return" =>
       LET zeroed == _extract_single_card_features(nlp, args.tagger, Zeroed(args.card_row)).value
       IN  /\ ret.value.roles = zeroed.roles
           /\ ret.value.pros = zeroed.pros
           /\ ret.value.cons = zeroed.cons
           /\ args.card_row.retreat_cost = NoneInt =>
                 /\ "pivot" \in Keys(ret.value.roles)
                 /\ ListedIn(ret.value.pros, "Free retreat for easy pivoting")
           /\ args.card_row.hp = NoneInt =>
                 ListedIn(ret.value.cons, "Low HP, vulnerable to knockouts")
           /\ "damage_amount" \notin DOMAIN ret.value.numerical_effects =>
                 ListedIn(ret.value.cons, "Low damage output")

\* A Pokémon with null hp and null retreat_cost and no damage amount.
C29_Witness ==
    /\ CardDone
    /\ ret.kind = "return"
    /\ args.card_row.hp = NoneInt
    /\ args.card_row.retreat_cost = NoneInt
    /\ "damage_amount" \notin DOMAIN ret.value.numerical_effects
    /\ "pivot" \in Keys(ret.value.roles)
    /\ ListedIn(ret.value.cons, "Low damage output")


\* C30: no card of the deck has a 'heal' role, the stall score of the
\* archetype fit is at most the control score, and the primary archetype of
\* the recommendations is never stall.
C30_StallNeverPrimary ==
    SynergyDone /\ ret.kind = "return" =>
        /\ \A i \in DOMAIN DeckOfCall : "heal" \notin Keys(DeckOfCall[i].roles)
        /\ FLe(ret.value.archetype_fit.stall, ret.value.archetype_fit.control)
        /\ PrimaryArchetype(ret.value.archetype_fit) # "stall"

\* A deck of walls: stall ties with control at the highest score.
C30_Witness ==
    /\ SynergyDone
    /\ ret.kind = "return"
    /\ DeckOfCall # <<>>
    /\ ret.value.archetype_fit.stall = ret.value.archetype_fit.control
    /\ ret.value.archetype_fit.stall # FZero
    /\ \A a \in ArchetypeSet : FLe(ret.value.archetype_fit[a], ret.value.archetype_fit.stall)
    /\ PrimaryArchetype(ret.value.archetype_fit) \in {"aggro", "control"}

====
